---- MODULE Spec2Model ----
EXTENDS Integers, Sequences, FiniteSets, TLC

\* ---------------------------------------------------------------- strings
\* Python str values.  A string of the program is named by a TLA+ string and
\* Chars gives its characters, so that substring tests and splits are computed
\* on the characters themselves.
Chars ==
       ("" :> <<>>)
    @@ (".so" :> <<".", "s", "o">>)
    @@ ("/data/data/" :> <<"/", "d", "a", "t", "a", "/", "d", "a", "t", "a", "/">>)
    @@ ("/proc/self/status" :> <<"/", "p", "r", "o", "c", "/", "s", "e", "l", "f", "/", "s", "t", "a", "t", "u", "s">>)
    @@ ("/system/" :> <<"/", "s", "y", "s", "t", "e", "m", "/">>)
    @@ ("/system/bin/su" :> <<"/", "s", "y", "s", "t", "e", "m", "/", "b", "i", "n", "/", "s", "u">>)
    @@ ("/system/xbin/su" :> <<"/", "s", "y", "s", "t", "e", "m", "/", "x", "b", "i", "n", "/", "s", "u">>)
    @@ ("ACCESS_BACKGROUND_LOCATION" :> <<"A", "C", "C", "E", "S", "S", "_", "B", "A", "C", "K", "G", "R", "O", "U", "N", "D", "_", "L", "O", "C", "A", "T", "I", "O", "N">>)
    @@ ("ACCESS_COARSE_LOCATION" :> <<"A", "C", "C", "E", "S", "S", "_", "C", "O", "A", "R", "S", "E", "_", "L", "O", "C", "A", "T", "I", "O", "N">>)
    @@ ("ACCESS_FINE_LOCATION" :> <<"A", "C", "C", "E", "S", "S", "_", "F", "I", "N", "E", "_", "L", "O", "C", "A", "T", "I", "O", "N">>)
    @@ ("ACCESS_WIFI_STATE" :> <<"A", "C", "C", "E", "S", "S", "_", "W", "I", "F", "I", "_", "S", "T", "A", "T", "E">>)
    @@ ("AES" :> <<"A", "E", "S">>)
    @@ ("ANDROID_ID" :> <<"A", "N", "D", "R", "O", "I", "D", "_", "I", "D">>)
    @@ ("ANSWER_PHONE_CALLS" :> <<"A", "N", "S", "W", "E", "R", "_", "P", "H", "O", "N", "E", "_", "C", "A", "L", "L", "S">>)
    @@ ("AUTHENTICATE_ACCOUNTS" :> <<"A", "U", "T", "H", "E", "N", "T", "I", "C", "A", "T", "E", "_", "A", "C", "C", "O", "U", "N", "T", "S">>)
    @@ ("ActivityManager.isUserAMonkey" :> <<"A", "c", "t", "i", "v", "i", "t", "y", "M", "a", "n", "a", "g", "e", "r", ".", "i", "s", "U", "s", "e", "r", "A", "M", "o", "n", "k", "e", "y">>)
    @@ ("AlarmManager" :> <<"A", "l", "a", "r", "m", "M", "a", "n", "a", "g", "e", "r">>)
    @@ ("ApplicationInfo.FLAG_DEBUGGABLE" :> <<"A", "p", "p", "l", "i", "c", "a", "t", "i", "o", "n", "I", "n", "f", "o", ".", "F", "L", "A", "G", "_", "D", "E", "B", "U", "G", "G", "A", "B", "L", "E">>)
    @@ ("AudioRecord" :> <<"A", "u", "d", "i", "o", "R", "e", "c", "o", "r", "d">>)
    @@ ("BIND_ACCESSIBILITY_SERVICE" :> <<"B", "I", "N", "D", "_", "A", "C", "C", "E", "S", "S", "I", "B", "I", "L", "I", "T", "Y", "_", "S", "E", "R", "V", "I", "C", "E">>)
    @@ ("BIND_DEVICE_ADMIN" :> <<"B", "I", "N", "D", "_", "D", "E", "V", "I", "C", "E", "_", "A", "D", "M", "I", "N">>)
    @@ ("BLUETOOTH" :> <<"B", "L", "U", "E", "T", "O", "O", "T", "H">>)
    @@ ("BLUETOOTH_ADMIN" :> <<"B", "L", "U", "E", "T", "O", "O", "T", "H", "_", "A", "D", "M", "I", "N">>)
    @@ ("Base64.decode" :> <<"B", "a", "s", "e", "6", "4", ".", "d", "e", "c", "o", "d", "e">>)
    @@ ("Base64.encode" :> <<"B", "a", "s", "e", "6", "4", ".", "e", "n", "c", "o", "d", "e">>)
    @@ ("BluetoothAdapter.getAddress" :> <<"B", "l", "u", "e", "t", "o", "o", "t", "h", "A", "d", "a", "p", "t", "e", "r", ".", "g", "e", "t", "A", "d", "d", "r", "e", "s", "s">>)
    @@ ("BroadcastReceiver" :> <<"B", "r", "o", "a", "d", "c", "a", "s", "t", "R", "e", "c", "e", "i", "v", "e", "r">>)
    @@ ("Build.SERIAL" :> <<"B", "u", "i", "l", "d", ".", "S", "E", "R", "I", "A", "L">>)
    @@ ("Build.TAGS" :> <<"B", "u", "i", "l", "d", ".", "T", "A", "G", "S">>)
    @@ ("C2D_MESSAGE" :> <<"C", "2", "D", "_", "M", "E", "S", "S", "A", "G", "E">>)
    @@ ("CALL_PHONE" :> <<"C", "A", "L", "L", "_", "P", "H", "O", "N", "E">>)
    @@ ("CAMERA" :> <<"C", "A", "M", "E", "R", "A">>)
    @@ ("CHANGE_NETWORK_STATE" :> <<"C", "H", "A", "N", "G", "E", "_", "N", "E", "T", "W", "O", "R", "K", "_", "S", "T", "A", "T", "E">>)
    @@ ("CHANGE_WIFI_STATE" :> <<"C", "H", "A", "N", "G", "E", "_", "W", "I", "F", "I", "_", "S", "T", "A", "T", "E">>)
    @@ ("Camera" :> <<"C", "a", "m", "e", "r", "a">>)
    @@ ("Cipher" :> <<"C", "i", "p", "h", "e", "r">>)
    @@ ("Class;->forName" :> <<"C", "l", "a", "s", "s", ";", "-", ">", "f", "o", "r", "N", "a", "m", "e">>)
    @@ ("ComponentName" :> <<"C", "o", "m", "p", "o", "n", "e", "n", "t", "N", "a", "m", "e">>)
    @@ ("DEVICE_ADMIN" :> <<"D", "E", "V", "I", "C", "E", "_", "A", "D", "M", "I", "N">>)
    @@ ("Debug.isDebuggerConnected" :> <<"D", "e", "b", "u", "g", ".", "i", "s", "D", "e", "b", "u", "g", "g", "e", "r", "C", "o", "n", "n", "e", "c", "t", "e", "d">>)
    @@ ("DeviceAdminReceiver" :> <<"D", "e", "v", "i", "c", "e", "A", "d", "m", "i", "n", "R", "e", "c", "e", "i", "v", "e", "r">>)
    @@ ("DevicePolicyManager" :> <<"D", "e", "v", "i", "c", "e", "P", "o", "l", "i", "c", "y", "M", "a", "n", "a", "g", "e", "r">>)
    @@ ("DexClassLoader" :> <<"D", "e", "x", "C", "l", "a", "s", "s", "L", "o", "a", "d", "e", "r">>)
    @@ ("DexFile" :> <<"D", "e", "x", "F", "i", "l", "e">>)
    @@ ("EXPAND_STATUS_BAR" :> <<"E", "X", "P", "A", "N", "D", "_", "S", "T", "A", "T", "U", "S", "_", "B", "A", "R">>)
    @@ ("FLAG_DEBUGGABLE" :> <<"F", "L", "A", "G", "_", "D", "E", "B", "U", "G", "G", "A", "B", "L", "E">>)
    @@ ("File" :> <<"F", "i", "l", "e">>)
    @@ ("FileInputStream" :> <<"F", "i", "l", "e", "I", "n", "p", "u", "t", "S", "t", "r", "e", "a", "m">>)
    @@ ("FileOutputStream" :> <<"F", "i", "l", "e", "O", "u", "t", "p", "u", "t", "S", "t", "r", "e", "a", "m">>)
    @@ ("GET_ACCOUNTS" :> <<"G", "E", "T", "_", "A", "C", "C", "O", "U", "N", "T", "S">>)
    @@ ("GET_TASKS" :> <<"G", "E", "T", "_", "T", "A", "S", "K", "S">>)
    @@ ("GPS_PROVIDER" :> <<"G", "P", "S", "_", "P", "R", "O", "V", "I", "D", "E", "R">>)
    @@ ("HttpURLConnection" :> <<"H", "t", "t", "p", "U", "R", "L", "C", "o", "n", "n", "e", "c", "t", "i", "o", "n">>)
    @@ ("INSTALL_PACKAGES" :> <<"I", "N", "S", "T", "A", "L", "L", "_", "P", "A", "C", "K", "A", "G", "E", "S">>)
    @@ ("INTERNET" :> <<"I", "N", "T", "E", "R", "N", "E", "T">>)
    @@ ("InMemoryDexClassLoader" :> <<"I", "n", "M", "e", "m", "o", "r", "y", "D", "e", "x", "C", "l", "a", "s", "s", "L", "o", "a", "d", "e", "r">>)
    @@ ("JNI" :> <<"J", "N", "I">>)
    @@ ("KILL_BACKGROUND_PROCESSES" :> <<"K", "I", "L", "L", "_", "B", "A", "C", "K", "G", "R", "O", "U", "N", "D", "_", "P", "R", "O", "C", "E", "S", "S", "E", "S">>)
    @@ ("KeyGenerator" :> <<"K", "e", "y", "G", "e", "n", "e", "r", "a", "t", "o", "r">>)
    @@ ("La/A;" :> <<"L", "a", "/", "A", ";">>)
    @@ ("Landroid/app/Activity;" :> <<"L", "a", "n", "d", "r", "o", "i", "d", "/", "a", "p", "p", "/", "A", "c", "t", "i", "v", "i", "t", "y", ";">>)
    @@ ("Landroid/app/admin/DevicePolicyManager;" :> <<"L", "a", "n", "d", "r", "o", "i", "d", "/", "a", "p", "p", "/", "a", "d", "m", "i", "n", "/", "D", "e", "v", "i", "c", "e", "P", "o", "l", "i", "c", "y", "M", "a", "n", "a", "g", "e", "r", ";">>)
    @@ ("Landroid/content/Context;" :> <<"L", "a", "n", "d", "r", "o", "i", "d", "/", "c", "o", "n", "t", "e", "n", "t", "/", "C", "o", "n", "t", "e", "x", "t", ";">>)
    @@ ("Landroid/net" :> <<"L", "a", "n", "d", "r", "o", "i", "d", "/", "n", "e", "t">>)
    @@ ("Landroid/telephony" :> <<"L", "a", "n", "d", "r", "o", "i", "d", "/", "t", "e", "l", "e", "p", "h", "o", "n", "y">>)
    @@ ("Landroid/telephony/SmsManager;" :> <<"L", "a", "n", "d", "r", "o", "i", "d", "/", "t", "e", "l", "e", "p", "h", "o", "n", "y", "/", "S", "m", "s", "M", "a", "n", "a", "g", "e", "r", ";">>)
    @@ ("Landroid/view/View;" :> <<"L", "a", "n", "d", "r", "o", "i", "d", "/", "v", "i", "e", "w", "/", "V", "i", "e", "w", ";">>)
    @@ ("Lb/B;" :> <<"L", "b", "/", "B", ";">>)
    @@ ("Lcom/app/Main;" :> <<"L", "c", "o", "m", "/", "a", "p", "p", "/", "M", "a", "i", "n", ";">>)
    @@ ("Lcom/app/getDeviceIdTask;" :> <<"L", "c", "o", "m", "/", "a", "p", "p", "/", "g", "e", "t", "D", "e", "v", "i", "c", "e", "I", "d", "T", "a", "s", "k", ";">>)
    @@ ("Ldalvik/system/DexClassLoader;" :> <<"L", "d", "a", "l", "v", "i", "k", "/", "s", "y", "s", "t", "e", "m", "/", "D", "e", "x", "C", "l", "a", "s", "s", "L", "o", "a", "d", "e", "r", ";">>)
    @@ ("Ljava/lang/Boolean;" :> <<"L", "j", "a", "v", "a", "/", "l", "a", "n", "g", "/", "B", "o", "o", "l", "e", "a", "n", ";">>)
    @@ ("Ljava/lang/Class;" :> <<"L", "j", "a", "v", "a", "/", "l", "a", "n", "g", "/", "C", "l", "a", "s", "s", ";">>)
    @@ ("Ljava/lang/Exception;" :> <<"L", "j", "a", "v", "a", "/", "l", "a", "n", "g", "/", "E", "x", "c", "e", "p", "t", "i", "o", "n", ";">>)
    @@ ("Ljava/lang/Integer;" :> <<"L", "j", "a", "v", "a", "/", "l", "a", "n", "g", "/", "I", "n", "t", "e", "g", "e", "r", ";">>)
    @@ ("Ljava/lang/Long;" :> <<"L", "j", "a", "v", "a", "/", "l", "a", "n", "g", "/", "L", "o", "n", "g", ";">>)
    @@ ("Ljava/lang/Object;" :> <<"L", "j", "a", "v", "a", "/", "l", "a", "n", "g", "/", "O", "b", "j", "e", "c", "t", ";">>)
    @@ ("Ljava/lang/String;" :> <<"L", "j", "a", "v", "a", "/", "l", "a", "n", "g", "/", "S", "t", "r", "i", "n", "g", ";">>)
    @@ ("Ljava/lang/StringBuilder;" :> <<"L", "j", "a", "v", "a", "/", "l", "a", "n", "g", "/", "S", "t", "r", "i", "n", "g", "B", "u", "i", "l", "d", "e", "r", ";">>)
    @@ ("Ljava/lang/Thread;" :> <<"L", "j", "a", "v", "a", "/", "l", "a", "n", "g", "/", "T", "h", "r", "e", "a", "d", ";">>)
    @@ ("Ljava/lang/reflect" :> <<"L", "j", "a", "v", "a", "/", "l", "a", "n", "g", "/", "r", "e", "f", "l", "e", "c", "t">>)
    @@ ("Ljava/net" :> <<"L", "j", "a", "v", "a", "/", "n", "e", "t">>)
    @@ ("Ljava/security" :> <<"L", "j", "a", "v", "a", "/", "s", "e", "c", "u", "r", "i", "t", "y">>)
    @@ ("Ljava/security/MessageDigest;" :> <<"L", "j", "a", "v", "a", "/", "s", "e", "c", "u", "r", "i", "t", "y", "/", "M", "e", "s", "s", "a", "g", "e", "D", "i", "g", "e", "s", "t", ";">>)
    @@ ("Ljavax/crypto" :> <<"L", "j", "a", "v", "a", "x", "/", "c", "r", "y", "p", "t", "o">>)
    @@ ("Ljavax/crypto/Cipher;" :> <<"L", "j", "a", "v", "a", "x", "/", "c", "r", "y", "p", "t", "o", "/", "C", "i", "p", "h", "e", "r", ";">>)
    @@ ("LocationManager" :> <<"L", "o", "c", "a", "t", "i", "o", "n", "M", "a", "n", "a", "g", "e", "r">>)
    @@ ("MANAGE_ACCOUNTS" :> <<"M", "A", "N", "A", "G", "E", "_", "A", "C", "C", "O", "U", "N", "T", "S">>)
    @@ ("MediaRecorder" :> <<"M", "e", "d", "i", "a", "R", "e", "c", "o", "r", "d", "e", "r">>)
    @@ ("MessageDigest" :> <<"M", "e", "s", "s", "a", "g", "e", "D", "i", "g", "e", "s", "t">>)
    @@ ("NDK" :> <<"N", "D", "K">>)
    @@ ("NETWORK_PROVIDER" :> <<"N", "E", "T", "W", "O", "R", "K", "_", "P", "R", "O", "V", "I", "D", "E", "R">>)
    @@ ("NFC" :> <<"N", "F", "C">>)
    @@ ("NFC_TRANSACTION" :> <<"N", "F", "C", "_", "T", "R", "A", "N", "S", "A", "C", "T", "I", "O", "N">>)
    @@ ("OkHttp" :> <<"O", "k", "H", "t", "t", "p">>)
    @@ ("PROCESS_OUTGOING_CALLS" :> <<"P", "R", "O", "C", "E", "S", "S", "_", "O", "U", "T", "G", "O", "I", "N", "G", "_", "C", "A", "L", "L", "S">>)
    @@ ("PathClassLoader" :> <<"P", "a", "t", "h", "C", "l", "a", "s", "s", "L", "o", "a", "d", "e", "r">>)
    @@ ("PendingIntent" :> <<"P", "e", "n", "d", "i", "n", "g", "I", "n", "t", "e", "n", "t">>)
    @@ ("ProcessBuilder" :> <<"P", "r", "o", "c", "e", "s", "s", "B", "u", "i", "l", "d", "e", "r">>)
    @@ ("READ_CALL_LOG" :> <<"R", "E", "A", "D", "_", "C", "A", "L", "L", "_", "L", "O", "G">>)
    @@ ("READ_CONTACTS" :> <<"R", "E", "A", "D", "_", "C", "O", "N", "T", "A", "C", "T", "S">>)
    @@ ("READ_EXTERNAL_STORAGE" :> <<"R", "E", "A", "D", "_", "E", "X", "T", "E", "R", "N", "A", "L", "_", "S", "T", "O", "R", "A", "G", "E">>)
    @@ ("READ_FRAME_BUFFER" :> <<"R", "E", "A", "D", "_", "F", "R", "A", "M", "E", "_", "B", "U", "F", "F", "E", "R">>)
    @@ ("READ_GSERVICES" :> <<"R", "E", "A", "D", "_", "G", "S", "E", "R", "V", "I", "C", "E", "S">>)
    @@ ("READ_LOGS" :> <<"R", "E", "A", "D", "_", "L", "O", "G", "S">>)
    @@ ("READ_PHONE_NUMBERS" :> <<"R", "E", "A", "D", "_", "P", "H", "O", "N", "E", "_", "N", "U", "M", "B", "E", "R", "S">>)
    @@ ("READ_PHONE_STATE" :> <<"R", "E", "A", "D", "_", "P", "H", "O", "N", "E", "_", "S", "T", "A", "T", "E">>)
    @@ ("READ_SMS" :> <<"R", "E", "A", "D", "_", "S", "M", "S">>)
    @@ ("RECEIVE" :> <<"R", "E", "C", "E", "I", "V", "E">>)
    @@ ("RECEIVE_BOOT_COMPLETED" :> <<"R", "E", "C", "E", "I", "V", "E", "_", "B", "O", "O", "T", "_", "C", "O", "M", "P", "L", "E", "T", "E", "D">>)
    @@ ("RECEIVE_MMS" :> <<"R", "E", "C", "E", "I", "V", "E", "_", "M", "M", "S">>)
    @@ ("RECEIVE_SMS" :> <<"R", "E", "C", "E", "I", "V", "E", "_", "S", "M", "S">>)
    @@ ("RECEIVE_WAP_PUSH" :> <<"R", "E", "C", "E", "I", "V", "E", "_", "W", "A", "P", "_", "P", "U", "S", "H">>)
    @@ ("RECORD_AUDIO" :> <<"R", "E", "C", "O", "R", "D", "_", "A", "U", "D", "I", "O">>)
    @@ ("REQUEST_INSTALL_PACKAGES" :> <<"R", "E", "Q", "U", "E", "S", "T", "_", "I", "N", "S", "T", "A", "L", "L", "_", "P", "A", "C", "K", "A", "G", "E", "S">>)
    @@ ("RESTART_PACKAGES" :> <<"R", "E", "S", "T", "A", "R", "T", "_", "P", "A", "C", "K", "A", "G", "E", "S">>)
    @@ ("RSA" :> <<"R", "S", "A">>)
    @@ ("RandomAccessFile" :> <<"R", "a", "n", "d", "o", "m", "A", "c", "c", "e", "s", "s", "F", "i", "l", "e">>)
    @@ ("Runtime.exec" :> <<"R", "u", "n", "t", "i", "m", "e", ".", "e", "x", "e", "c">>)
    @@ ("SEND_SMS" :> <<"S", "E", "N", "D", "_", "S", "M", "S">>)
    @@ ("SERIAL" :> <<"S", "E", "R", "I", "A", "L">>)
    @@ ("SMARTCARD" :> <<"S", "M", "A", "R", "T", "C", "A", "R", "D">>)
    @@ ("STATUS_BAR" :> <<"S", "T", "A", "T", "U", "S", "_", "B", "A", "R">>)
    @@ ("SYSTEM_ALERT_WINDOW" :> <<"S", "Y", "S", "T", "E", "M", "_", "A", "L", "E", "R", "T", "_", "W", "I", "N", "D", "O", "W">>)
    @@ ("SecretKey" :> <<"S", "e", "c", "r", "e", "t", "K", "e", "y">>)
    @@ ("ServerSocket" :> <<"S", "e", "r", "v", "e", "r", "S", "o", "c", "k", "e", "t">>)
    @@ ("ServiceConnection" :> <<"S", "e", "r", "v", "i", "c", "e", "C", "o", "n", "n", "e", "c", "t", "i", "o", "n">>)
    @@ ("Settings.Secure.ANDROID_ID" :> <<"S", "e", "t", "t", "i", "n", "g", "s", ".", "S", "e", "c", "u", "r", "e", ".", "A", "N", "D", "R", "O", "I", "D", "_", "I", "D">>)
    @@ ("Sms" :> <<"S", "m", "s">>)
    @@ ("SmsManager" :> <<"S", "m", "s", "M", "a", "n", "a", "g", "e", "r">>)
    @@ ("Socket" :> <<"S", "o", "c", "k", "e", "t">>)
    @@ ("String.charAt" :> <<"S", "t", "r", "i", "n", "g", ".", "c", "h", "a", "r", "A", "t">>)
    @@ ("StringBuffer" :> <<"S", "t", "r", "i", "n", "g", "B", "u", "f", "f", "e", "r">>)
    @@ ("StringBuilder.reverse" :> <<"S", "t", "r", "i", "n", "g", "B", "u", "i", "l", "d", "e", "r", ".", "r", "e", "v", "e", "r", "s", "e">>)
    @@ ("SuperSU" :> <<"S", "u", "p", "e", "r", "S", "U">>)
    @@ ("Superuser.apk" :> <<"S", "u", "p", "e", "r", "u", "s", "e", "r", ".", "a", "p", "k">>)
    @@ ("System.load" :> <<"S", "y", "s", "t", "e", "m", ".", "l", "o", "a", "d">>)
    @@ ("System.loadLibrary" :> <<"S", "y", "s", "t", "e", "m", ".", "l", "o", "a", "d", "L", "i", "b", "r", "a", "r", "y">>)
    @@ ("TAGS" :> <<"T", "A", "G", "S">>)
    @@ ("Telephony" :> <<"T", "e", "l", "e", "p", "h", "o", "n", "y">>)
    @@ ("TelephonyManager" :> <<"T", "e", "l", "e", "p", "h", "o", "n", "y", "M", "a", "n", "a", "g", "e", "r">>)
    @@ ("TextMessage" :> <<"T", "e", "x", "t", "M", "e", "s", "s", "a", "g", "e">>)
    @@ ("TracerPid" :> <<"T", "r", "a", "c", "e", "r", "P", "i", "d">>)
    @@ ("URLConnection" :> <<"U", "R", "L", "C", "o", "n", "n", "e", "c", "t", "i", "o", "n">>)
    @@ ("URLDecoder.decode" :> <<"U", "R", "L", "D", "e", "c", "o", "d", "e", "r", ".", "d", "e", "c", "o", "d", "e">>)
    @@ ("URLEncoder.encode" :> <<"U", "R", "L", "E", "n", "c", "o", "d", "e", "r", ".", "e", "n", "c", "o", "d", "e">>)
    @@ ("USE_FINGERPRINT" :> <<"U", "S", "E", "_", "F", "I", "N", "G", "E", "R", "P", "R", "I", "N", "T">>)
    @@ ("Volley" :> <<"V", "o", "l", "l", "e", "y">>)
    @@ ("WAKE_LOCK" :> <<"W", "A", "K", "E", "_", "L", "O", "C", "K">>)
    @@ ("WRITE_CALL_LOG" :> <<"W", "R", "I", "T", "E", "_", "C", "A", "L", "L", "_", "L", "O", "G">>)
    @@ ("WRITE_CONTACTS" :> <<"W", "R", "I", "T", "E", "_", "C", "O", "N", "T", "A", "C", "T", "S">>)
    @@ ("WRITE_EXTERNAL_STORAGE" :> <<"W", "R", "I", "T", "E", "_", "E", "X", "T", "E", "R", "N", "A", "L", "_", "S", "T", "O", "R", "A", "G", "E">>)
    @@ ("WRITE_SETTINGS" :> <<"W", "R", "I", "T", "E", "_", "S", "E", "T", "T", "I", "N", "G", "S">>)
    @@ ("WifiInfo.getMacAddress" :> <<"W", "i", "f", "i", "I", "n", "f", "o", ".", "g", "e", "t", "M", "a", "c", "A", "d", "d", "r", "e", "s", "s">>)
    @@ ("\\x" :> <<"\\", "x">>)
    @@ ("a" :> <<"a">>)
    @@ ("a.apk" :> <<"a", ".", "a", "p", "k">>)
    @@ ("android.permission.ACCESS_COARSE_LOCATION" :> <<"a", "n", "d", "r", "o", "i", "d", ".", "p", "e", "r", "m", "i", "s", "s", "i", "o", "n", ".", "A", "C", "C", "E", "S", "S", "_", "C", "O", "A", "R", "S", "E", "_", "L", "O", "C", "A", "T", "I", "O", "N">>)
    @@ ("android.permission.ACCESS_FINE_LOCATION" :> <<"a", "n", "d", "r", "o", "i", "d", ".", "p", "e", "r", "m", "i", "s", "s", "i", "o", "n", ".", "A", "C", "C", "E", "S", "S", "_", "F", "I", "N", "E", "_", "L", "O", "C", "A", "T", "I", "O", "N">>)
    @@ ("android.permission.BLUETOOTH" :> <<"a", "n", "d", "r", "o", "i", "d", ".", "p", "e", "r", "m", "i", "s", "s", "i", "o", "n", ".", "B", "L", "U", "E", "T", "O", "O", "T", "H">>)
    @@ ("android.permission.CALL_PHONE" :> <<"a", "n", "d", "r", "o", "i", "d", ".", "p", "e", "r", "m", "i", "s", "s", "i", "o", "n", ".", "C", "A", "L", "L", "_", "P", "H", "O", "N", "E">>)
    @@ ("android.permission.CAMERA" :> <<"a", "n", "d", "r", "o", "i", "d", ".", "p", "e", "r", "m", "i", "s", "s", "i", "o", "n", ".", "C", "A", "M", "E", "R", "A">>)
    @@ ("android.permission.DEVICE_ADMIN" :> <<"a", "n", "d", "r", "o", "i", "d", ".", "p", "e", "r", "m", "i", "s", "s", "i", "o", "n", ".", "D", "E", "V", "I", "C", "E", "_", "A", "D", "M", "I", "N">>)
    @@ ("android.permission.GET_ACCOUNTS" :> <<"a", "n", "d", "r", "o", "i", "d", ".", "p", "e", "r", "m", "i", "s", "s", "i", "o", "n", ".", "G", "E", "T", "_", "A", "C", "C", "O", "U", "N", "T", "S">>)
    @@ ("android.permission.INTERNET" :> <<"a", "n", "d", "r", "o", "i", "d", ".", "p", "e", "r", "m", "i", "s", "s", "i", "o", "n", ".", "I", "N", "T", "E", "R", "N", "E", "T">>)
    @@ ("android.permission.NFC" :> <<"a", "n", "d", "r", "o", "i", "d", ".", "p", "e", "r", "m", "i", "s", "s", "i", "o", "n", ".", "N", "F", "C">>)
    @@ ("android.permission.READ_CALL_LOG" :> <<"a", "n", "d", "r", "o", "i", "d", ".", "p", "e", "r", "m", "i", "s", "s", "i", "o", "n", ".", "R", "E", "A", "D", "_", "C", "A", "L", "L", "_", "L", "O", "G">>)
    @@ ("android.permission.READ_CONTACTS" :> <<"a", "n", "d", "r", "o", "i", "d", ".", "p", "e", "r", "m", "i", "s", "s", "i", "o", "n", ".", "R", "E", "A", "D", "_", "C", "O", "N", "T", "A", "C", "T", "S">>)
    @@ ("android.permission.READ_EXTERNAL_STORAGE" :> <<"a", "n", "d", "r", "o", "i", "d", ".", "p", "e", "r", "m", "i", "s", "s", "i", "o", "n", ".", "R", "E", "A", "D", "_", "E", "X", "T", "E", "R", "N", "A", "L", "_", "S", "T", "O", "R", "A", "G", "E">>)
    @@ ("android.permission.READ_PHONE_STATE" :> <<"a", "n", "d", "r", "o", "i", "d", ".", "p", "e", "r", "m", "i", "s", "s", "i", "o", "n", ".", "R", "E", "A", "D", "_", "P", "H", "O", "N", "E", "_", "S", "T", "A", "T", "E">>)
    @@ ("android.permission.READ_SMS" :> <<"a", "n", "d", "r", "o", "i", "d", ".", "p", "e", "r", "m", "i", "s", "s", "i", "o", "n", ".", "R", "E", "A", "D", "_", "S", "M", "S">>)
    @@ ("android.permission.RECEIVE_BOOT_COMPLETED" :> <<"a", "n", "d", "r", "o", "i", "d", ".", "p", "e", "r", "m", "i", "s", "s", "i", "o", "n", ".", "R", "E", "C", "E", "I", "V", "E", "_", "B", "O", "O", "T", "_", "C", "O", "M", "P", "L", "E", "T", "E", "D">>)
    @@ ("android.permission.RECEIVE_SMS" :> <<"a", "n", "d", "r", "o", "i", "d", ".", "p", "e", "r", "m", "i", "s", "s", "i", "o", "n", ".", "R", "E", "C", "E", "I", "V", "E", "_", "S", "M", "S">>)
    @@ ("android.permission.RECEIVE_WAP_PUSH" :> <<"a", "n", "d", "r", "o", "i", "d", ".", "p", "e", "r", "m", "i", "s", "s", "i", "o", "n", ".", "R", "E", "C", "E", "I", "V", "E", "_", "W", "A", "P", "_", "P", "U", "S", "H">>)
    @@ ("android.permission.RECORD_AUDIO" :> <<"a", "n", "d", "r", "o", "i", "d", ".", "p", "e", "r", "m", "i", "s", "s", "i", "o", "n", ".", "R", "E", "C", "O", "R", "D", "_", "A", "U", "D", "I", "O">>)
    @@ ("android.permission.SEND_SMS" :> <<"a", "n", "d", "r", "o", "i", "d", ".", "p", "e", "r", "m", "i", "s", "s", "i", "o", "n", ".", "S", "E", "N", "D", "_", "S", "M", "S">>)
    @@ ("android.permission.SYSTEM_ALERT_WINDOW" :> <<"a", "n", "d", "r", "o", "i", "d", ".", "p", "e", "r", "m", "i", "s", "s", "i", "o", "n", ".", "S", "Y", "S", "T", "E", "M", "_", "A", "L", "E", "R", "T", "_", "W", "I", "N", "D", "O", "W">>)
    @@ ("android.permission.WAKE_LOCK" :> <<"a", "n", "d", "r", "o", "i", "d", ".", "p", "e", "r", "m", "i", "s", "s", "i", "o", "n", ".", "W", "A", "K", "E", "_", "L", "O", "C", "K">>)
    @@ ("android.permission.WRITE_CALL_LOG" :> <<"a", "n", "d", "r", "o", "i", "d", ".", "p", "e", "r", "m", "i", "s", "s", "i", "o", "n", ".", "W", "R", "I", "T", "E", "_", "C", "A", "L", "L", "_", "L", "O", "G">>)
    @@ ("android.permission.WRITE_CONTACTS" :> <<"a", "n", "d", "r", "o", "i", "d", ".", "p", "e", "r", "m", "i", "s", "s", "i", "o", "n", ".", "W", "R", "I", "T", "E", "_", "C", "O", "N", "T", "A", "C", "T", "S">>)
    @@ ("android.permission.WRITE_EXTERNAL_STORAGE" :> <<"a", "n", "d", "r", "o", "i", "d", ".", "p", "e", "r", "m", "i", "s", "s", "i", "o", "n", ".", "W", "R", "I", "T", "E", "_", "E", "X", "T", "E", "R", "N", "A", "L", "_", "S", "T", "O", "R", "A", "G", "E">>)
    @@ ("android.permission.WRITE_SETTINGS" :> <<"a", "n", "d", "r", "o", "i", "d", ".", "p", "e", "r", "m", "i", "s", "s", "i", "o", "n", ".", "W", "R", "I", "T", "E", "_", "S", "E", "T", "T", "I", "N", "G", "S">>)
    @@ ("android.provider.Telephony" :> <<"a", "n", "d", "r", "o", "i", "d", ".", "p", "r", "o", "v", "i", "d", "e", "r", ".", "T", "e", "l", "e", "p", "h", "o", "n", "y">>)
    @@ ("androidx." :> <<"a", "n", "d", "r", "o", "i", "d", "x", ".">>)
    @@ ("apk" :> <<"a", "p", "k">>)
    @@ ("arm64" :> <<"a", "r", "m", "6", "4">>)
    @@ ("b" :> <<"b">>)
    @@ ("b.apk" :> <<"b", ".", "a", "p", "k">>)
    @@ ("bank" :> <<"b", "a", "n", "k">>)
    @@ ("banking" :> <<"b", "a", "n", "k", "i", "n", "g">>)
    @@ ("bindService" :> <<"b", "i", "n", "d", "S", "e", "r", "v", "i", "c", "e">>)
    @@ ("busybox" :> <<"b", "u", "s", "y", "b", "o", "x">>)
    @@ ("charAt" :> <<"c", "h", "a", "r", "A", "t">>)
    @@ ("com" :> <<"c", "o", "m">>)
    @@ ("com.android.vending" :> <<"c", "o", "m", ".", "a", "n", "d", "r", "o", "i", "d", ".", "v", "e", "n", "d", "i", "n", "g">>)
    @@ ("com.app.permission.C2D_MESSAGE" :> <<"c", "o", "m", ".", "a", "p", "p", ".", "p", "e", "r", "m", "i", "s", "s", "i", "o", "n", ".", "C", "2", "D", "_", "M", "E", "S", "S", "A", "G", "E">>)
    @@ ("com.google.android.c2dm.permission.RECEIVE" :> <<"c", "o", "m", ".", "g", "o", "o", "g", "l", "e", ".", "a", "n", "d", "r", "o", "i", "d", ".", "c", "2", "d", "m", ".", "p", "e", "r", "m", "i", "s", "s", "i", "o", "n", ".", "R", "E", "C", "E", "I", "V", "E">>)
    @@ ("com.google.android.providers.gsf.permission.READ_GSERVICES" :> <<"c", "o", "m", ".", "g", "o", "o", "g", "l", "e", ".", "a", "n", "d", "r", "o", "i", "d", ".", "p", "r", "o", "v", "i", "d", "e", "r", "s", ".", "g", "s", "f", ".", "p", "e", "r", "m", "i", "s", "s", "i", "o", "n", ".", "R", "E", "A", "D", "_", "G", "S", "E", "R", "V", "I", "C", "E", "S">>)
    @@ ("com.google.firebase" :> <<"c", "o", "m", ".", "g", "o", "o", "g", "l", "e", ".", "f", "i", "r", "e", "b", "a", "s", "e">>)
    @@ ("coroutines" :> <<"c", "o", "r", "o", "u", "t", "i", "n", "e", "s">>)
    @@ ("dalvik.system.DexFile" :> <<"d", "a", "l", "v", "i", "k", ".", "s", "y", "s", "t", "e", "m", ".", "D", "e", "x", "F", "i", "l", "e">>)
    @@ ("decode" :> <<"d", "e", "c", "o", "d", "e">>)
    @@ ("decrypt" :> <<"d", "e", "c", "r", "y", "p", "t">>)
    @@ ("deleteFile" :> <<"d", "e", "l", "e", "t", "e", "F", "i", "l", "e">>)
    @@ ("encode" :> <<"e", "n", "c", "o", "d", "e">>)
    @@ ("encrypt" :> <<"e", "n", "c", "r", "y", "p", "t">>)
    @@ ("exec" :> <<"e", "x", "e", "c">>)
    @@ ("firebase" :> <<"f", "i", "r", "e", "b", "a", "s", "e">>)
    @@ ("getAddress" :> <<"g", "e", "t", "A", "d", "d", "r", "e", "s", "s">>)
    @@ ("getCellLocation" :> <<"g", "e", "t", "C", "e", "l", "l", "L", "o", "c", "a", "t", "i", "o", "n">>)
    @@ ("getDeclaredMethod" :> <<"g", "e", "t", "D", "e", "c", "l", "a", "r", "e", "d", "M", "e", "t", "h", "o", "d">>)
    @@ ("getDeviceId" :> <<"g", "e", "t", "D", "e", "v", "i", "c", "e", "I", "d">>)
    @@ ("getExternalStorageDirectory" :> <<"g", "e", "t", "E", "x", "t", "e", "r", "n", "a", "l", "S", "t", "o", "r", "a", "g", "e", "D", "i", "r", "e", "c", "t", "o", "r", "y">>)
    @@ ("getInstalledPackages" :> <<"g", "e", "t", "I", "n", "s", "t", "a", "l", "l", "e", "d", "P", "a", "c", "k", "a", "g", "e", "s">>)
    @@ ("getLastKnownLocation" :> <<"g", "e", "t", "L", "a", "s", "t", "K", "n", "o", "w", "n", "L", "o", "c", "a", "t", "i", "o", "n">>)
    @@ ("getLine1Number" :> <<"g", "e", "t", "L", "i", "n", "e", "1", "N", "u", "m", "b", "e", "r">>)
    @@ ("getMacAddress" :> <<"g", "e", "t", "M", "a", "c", "A", "d", "d", "r", "e", "s", "s">>)
    @@ ("getRunningTasks" :> <<"g", "e", "t", "R", "u", "n", "n", "i", "n", "g", "T", "a", "s", "k", "s">>)
    @@ ("getSimSerialNumber" :> <<"g", "e", "t", "S", "i", "m", "S", "e", "r", "i", "a", "l", "N", "u", "m", "b", "e", "r">>)
    @@ ("getSubscriberId" :> <<"g", "e", "t", "S", "u", "b", "s", "c", "r", "i", "b", "e", "r", "I", "d">>)
    @@ ("isDebuggerConnected" :> <<"i", "s", "D", "e", "b", "u", "g", "g", "e", "r", "C", "o", "n", "n", "e", "c", "t", "e", "d">>)
    @@ ("isUserAMonkey" :> <<"i", "s", "U", "s", "e", "r", "A", "M", "o", "n", "k", "e", "y">>)
    @@ ("java.io.File" :> <<"j", "a", "v", "a", ".", "i", "o", ".", "F", "i", "l", "e">>)
    @@ ("json" :> <<"j", "s", "o", "n">>)
    @@ ("kotlin.coroutines" :> <<"k", "o", "t", "l", "i", "n", ".", "c", "o", "r", "o", "u", "t", "i", "n", "e", "s">>)
    @@ ("load" :> <<"l", "o", "a", "d">>)
    @@ ("loadLibrary" :> <<"l", "o", "a", "d", "L", "i", "b", "r", "a", "r", "y">>)
    @@ ("lockNow" :> <<"l", "o", "c", "k", "N", "o", "w">>)
    @@ ("market://" :> <<"m", "a", "r", "k", "e", "t", ":", "/", "/">>)
    @@ ("mips" :> <<"m", "i", "p", "s">>)
    @@ ("native" :> <<"n", "a", "t", "i", "v", "e">>)
    @@ ("okhttp3" :> <<"o", "k", "h", "t", "t", "p", "3">>)
    @@ ("openFileInput" :> <<"o", "p", "e", "n", "F", "i", "l", "e", "I", "n", "p", "u", "t">>)
    @@ ("openFileOutput" :> <<"o", "p", "e", "n", "F", "i", "l", "e", "O", "u", "t", "p", "u", "t">>)
    @@ ("org.json" :> <<"o", "r", "g", ".", "j", "s", "o", "n">>)
    @@ ("org.simalliance.openmobileapi.SMARTCARD" :> <<"o", "r", "g", ".", "s", "i", "m", "a", "l", "l", "i", "a", "n", "c", "e", ".", "o", "p", "e", "n", "m", "o", "b", "i", "l", "e", "a", "p", "i", ".", "S", "M", "A", "R", "T", "C", "A", "R", "D">>)
    @@ ("payment" :> <<"p", "a", "y", "m", "e", "n", "t">>)
    @@ ("paypal" :> <<"p", "a", "y", "p", "a", "l">>)
    @@ ("play.google.com" :> <<"p", "l", "a", "y", ".", "g", "o", "o", "g", "l", "e", ".", "c", "o", "m">>)
    @@ ("registerReceiver" :> <<"r", "e", "g", "i", "s", "t", "e", "r", "R", "e", "c", "e", "i", "v", "e", "r">>)
    @@ ("requestLocationUpdates" :> <<"r", "e", "q", "u", "e", "s", "t", "L", "o", "c", "a", "t", "i", "o", "n", "U", "p", "d", "a", "t", "e", "s">>)
    @@ ("resetPassword" :> <<"r", "e", "s", "e", "t", "P", "a", "s", "s", "w", "o", "r", "d">>)
    @@ ("reverse" :> <<"r", "e", "v", "e", "r", "s", "e">>)
    @@ ("sendBroadcast" :> <<"s", "e", "n", "d", "B", "r", "o", "a", "d", "c", "a", "s", "t">>)
    @@ ("sendMultipartTextMessage" :> <<"s", "e", "n", "d", "M", "u", "l", "t", "i", "p", "a", "r", "t", "T", "e", "x", "t", "M", "e", "s", "s", "a", "g", "e">>)
    @@ ("sendTextMessage" :> <<"s", "e", "n", "d", "T", "e", "x", "t", "M", "e", "s", "s", "a", "g", "e">>)
    @@ ("setAudioSource" :> <<"s", "e", "t", "A", "u", "d", "i", "o", "S", "o", "u", "r", "c", "e">>)
    @@ ("setPasswordQuality" :> <<"s", "e", "t", "P", "a", "s", "s", "w", "o", "r", "d", "Q", "u", "a", "l", "i", "t", "y">>)
    @@ ("setVideoSource" :> <<"s", "e", "t", "V", "i", "d", "e", "o", "S", "o", "u", "r", "c", "e">>)
    @@ ("so" :> <<"s", "o">>)
    @@ ("startRecording" :> <<"s", "t", "a", "r", "t", "R", "e", "c", "o", "r", "d", "i", "n", "g">>)
    @@ ("startService" :> <<"s", "t", "a", "r", "t", "S", "e", "r", "v", "i", "c", "e">>)
    @@ ("takePicture" :> <<"t", "a", "k", "e", "P", "i", "c", "t", "u", "r", "e">>)
    @@ ("test-keys" :> <<"t", "e", "s", "t", "-", "k", "e", "y", "s">>)
    @@ ("unicode" :> <<"u", "n", "i", "c", "o", "d", "e">>)
    @@ ("vending" :> <<"v", "e", "n", "d", "i", "n", "g">>)
    @@ ("wallet" :> <<"w", "a", "l", "l", "e", "t">>)
    @@ ("which su" :> <<"w", "h", "i", "c", "h", " ", "s", "u">>)
    @@ ("wipeData" :> <<"w", "i", "p", "e", "D", "a", "t", "a">>)
    @@ ("x86" :> <<"x", "8", "6">>)
    @@ ("xor" :> <<"x", "o", "r">>)

\* ------------------------------------------------------------------- bounds
\* total number of runs of calls over all the methods of a package
MaxRuns == 2
\* ----------------------------------------------------------- small helpers
Max(a, b) == IF a >= b THEN a ELSE b

Min(a, b) == IF a <= b THEN a ELSE b

Range(f) == {f[i] : i \in DOMAIN f}

\* the function f as a table of computed values
Table(f) == f @@ << >>

RECURSIVE SumOver(_, _)
\* sum of f[x] over the finite set S
SumOver(f, S) ==
    IF S = {} THEN 0
    ELSE LET x == CHOOSE y \in S : TRUE IN f[x] + SumOver(f, S \ {x})

\* the string whose characters are cs
Str(cs) == CHOOSE s \in DOMAIN Chars : Chars[s] = cs

\* whether the characters ps occur, in a row, in the characters ss
Occurs(ps, ss) ==
    \E i \in 0..(Len(ss) - Len(ps)) : \A j \in 1..Len(ps) : ss[i + j] = ps[j]

\* p in s  (Python substring test, case-sensitive)
Contains(p, s) == Occurs(Chars[p], Chars[s])

\* the position of the last "." of cs at or after position from, 0 without one
LastDot(cs, from) ==
    IF \E i \in from..Len(cs) : cs[i] = "."
    THEN CHOOSE i \in from..Len(cs) :
            cs[i] = "." /\ \A j \in (i + 1)..Len(cs) : cs[j] # "."
    ELSE 0

\* the characters after the last "."
AfterLastDot(cs) == SubSeq(cs, LastDot(cs, 1) + 1, Len(cs))

\* s.split(".")[-1], computed on the characters
LastPart(s) == Str(AfterLastDot(Chars[s]))

\* LastPart, tabulated over the strings of the model
LastParts == Table([s \in DOMAIN Chars |-> LastPart(s)])

SplitLast(s) == LastParts[s]

\* ------------------------------------------- semantic_graphs: constants
STOP_CLASSES == {
    "Ljava/lang/Object;", "Ljava/lang/String;", "Ljava/lang/StringBuilder;",
    "Ljava/lang/Integer;", "Ljava/lang/Long;", "Ljava/lang/Boolean;", "Ljava/lang/Class;",
    "Ljava/lang/Thread;", "Ljava/lang/Exception;" }

\* STOP_CLASSES of feature_extraction
FE_STOP_CLASSES == {
    "Ljava/lang/Object;", "Ljava/lang/String;", "Ljava/lang/StringBuilder;",
    "Landroid/view/View;", "Landroid/app/Activity;", "Landroid/content/Context;" }

\* DANGEROUS_PERMISSIONS of feature_extraction
FE_DANGEROUS_PERMISSIONS == {
    "ACCESS_BACKGROUND_LOCATION", "ACCESS_COARSE_LOCATION", "ACCESS_FINE_LOCATION",
    "ACCESS_WIFI_STATE", "ANSWER_PHONE_CALLS", "BIND_ACCESSIBILITY_SERVICE",
    "BIND_DEVICE_ADMIN", "CALL_PHONE", "CAMERA", "CHANGE_NETWORK_STATE", "CHANGE_WIFI_STATE",
    "GET_TASKS", "INSTALL_PACKAGES", "KILL_BACKGROUND_PROCESSES", "PROCESS_OUTGOING_CALLS",
    "READ_CALL_LOG", "READ_CONTACTS", "READ_EXTERNAL_STORAGE", "READ_PHONE_NUMBERS",
    "READ_PHONE_STATE", "READ_SMS", "RECEIVE_MMS", "RECEIVE_SMS", "RECEIVE_WAP_PUSH",
    "RECORD_AUDIO", "REQUEST_INSTALL_PACKAGES", "SEND_SMS", "SYSTEM_ALERT_WINDOW",
    "WRITE_CALL_LOG", "WRITE_CONTACTS", "WRITE_EXTERNAL_STORAGE" }

DANGEROUS_PERMISSIONS == {
    "ACCESS_COARSE_LOCATION", "ACCESS_FINE_LOCATION", "CALL_PHONE", "CAMERA", "DEVICE_ADMIN",
    "READ_CALL_LOG", "READ_CONTACTS", "READ_EXTERNAL_STORAGE", "READ_PHONE_STATE", "READ_SMS",
    "RECEIVE_SMS", "RECORD_AUDIO", "SEND_SMS", "SYSTEM_ALERT_WINDOW", "WRITE_CALL_LOG",
    "WRITE_CONTACTS", "WRITE_EXTERNAL_STORAGE", "WRITE_SETTINGS" }

\* CATEGORY_RULES, in the insertion order of the dict
Categories == <<
    "network", "telephony", "sms", "crypto", "reflection", "dynamic", "dangerous_permissions",
    "file_operations", "device_info", "location", "media_capture", "root_detection",
    "admin_operations", "obfuscation", "background_ops", "banking_targets", "native_code",
    "anti_debug", "modern_libs", "privileged_ops" >>

CATEGORY_RULES ==
       ("network" :>
          <<"Landroid/net", "Ljava/net", "HttpURLConnection", "URLConnection", "OkHttp",
            "okhttp3", "Volley", "Socket", "ServerSocket">>)
    @@ ("telephony" :>
          <<"Landroid/telephony", "Telephony", "TelephonyManager">>)
    @@ ("sms" :>
          <<"Sms", "TextMessage", "SmsManager", "sendTextMessage", "sendMultipartTextMessage",
            "android.provider.Telephony">>)
    @@ ("crypto" :>
          <<"Ljavax/crypto", "Ljava/security", "Cipher", "MessageDigest", "KeyGenerator",
            "SecretKey", "encrypt", "decrypt", "AES", "RSA">>)
    @@ ("reflection" :>
          <<"Ljava/lang/reflect", "Class;->forName", "getDeclaredMethod">>)
    @@ ("dynamic" :>
          <<"DexClassLoader", "PathClassLoader", "System.loadLibrary", "System.load",
            "dalvik.system.DexFile", "InMemoryDexClassLoader">>)
    @@ ("dangerous_permissions" :>
          <<"DEVICE_ADMIN", "SYSTEM_ALERT_WINDOW", "WRITE_SETTINGS">>)
    @@ ("file_operations" :>
          <<"java.io.File", "FileInputStream", "FileOutputStream", "RandomAccessFile",
            "/system/", "/data/data/", "getExternalStorageDirectory", "openFileOutput",
            "openFileInput", "deleteFile">>)
    @@ ("device_info" :>
          <<"getDeviceId", "getSubscriberId", "getSimSerialNumber", "getLine1Number",
            "Build.SERIAL", "Settings.Secure.ANDROID_ID", "WifiInfo.getMacAddress",
            "BluetoothAdapter.getAddress", "getInstalledPackages", "getRunningTasks">>)
    @@ ("location" :>
          <<"LocationManager", "GPS_PROVIDER", "NETWORK_PROVIDER", "getLastKnownLocation",
            "requestLocationUpdates", "getCellLocation">>)
    @@ ("media_capture" :>
          <<"Camera", "MediaRecorder", "AudioRecord", "takePicture", "startRecording",
            "setAudioSource", "setVideoSource">>)
    @@ ("root_detection" :>
          <<"/system/bin/su", "/system/xbin/su", "Superuser.apk", "SuperSU", "busybox",
            "which su", "Runtime.exec", "ProcessBuilder">>)
    @@ ("admin_operations" :>
          <<"DevicePolicyManager", "DeviceAdminReceiver", "lockNow", "wipeData",
            "resetPassword", "setPasswordQuality", "ComponentName">>)
    @@ ("obfuscation" :>
          <<"String.charAt", "StringBuilder.reverse", "Base64.decode", "Base64.encode",
            "URLDecoder.decode", "URLEncoder.encode", "xor", "\\x", "unicode", "StringBuffer">>)
    @@ ("background_ops" :>
          <<"startService", "bindService", "ServiceConnection", "BroadcastReceiver",
            "sendBroadcast", "registerReceiver", "AlarmManager", "PendingIntent">>)
    @@ ("banking_targets" :>
          <<"com.android.vending", "market://", "play.google.com", "banking", "wallet",
            "payment", "paypal", "bank">>)
    @@ ("native_code" :>
          <<"System.loadLibrary", "native", "JNI", "NDK", ".so", "arm64", "x86", "mips">>)
    @@ ("anti_debug" :>
          <<"Debug.isDebuggerConnected", "ActivityManager.isUserAMonkey", "Build.TAGS",
            "test-keys", "ApplicationInfo.FLAG_DEBUGGABLE", "/proc/self/status", "TracerPid">>)
    @@ ("modern_libs" :>
          <<"androidx.", "com.google.firebase", "org.json", "kotlin.coroutines">>)
    @@ ("privileged_ops" :>
          <<>>)

PERM_TO_CATEGORY ==
       ("READ_SMS" :> "sms")
    @@ ("RECEIVE_SMS" :> "sms")
    @@ ("SEND_SMS" :> "sms")
    @@ ("RECEIVE_WAP_PUSH" :> "sms")
    @@ ("READ_PHONE_STATE" :> "device_info")
    @@ ("GET_ACCOUNTS" :> "device_info")
    @@ ("GET_TASKS" :> "device_info")
    @@ ("READ_CONTACTS" :> "device_info")
    @@ ("WRITE_CONTACTS" :> "device_info")
    @@ ("CAMERA" :> "media_capture")
    @@ ("RECORD_AUDIO" :> "media_capture")
    @@ ("ACCESS_FINE_LOCATION" :> "location")
    @@ ("ACCESS_COARSE_LOCATION" :> "location")
    @@ ("READ_EXTERNAL_STORAGE" :> "file_operations")
    @@ ("WRITE_EXTERNAL_STORAGE" :> "file_operations")
    @@ ("SYSTEM_ALERT_WINDOW" :> "admin_operations")
    @@ ("WRITE_SETTINGS" :> "admin_operations")
    @@ ("DEVICE_ADMIN" :> "admin_operations")
    @@ ("RECEIVE_BOOT_COMPLETED" :> "background_ops")
    @@ ("WAKE_LOCK" :> "background_ops")
    @@ ("INSTALL_PACKAGES" :> "privileged_ops")
    @@ ("RESTART_PACKAGES" :> "privileged_ops")
    @@ ("READ_LOGS" :> "privileged_ops")
    @@ ("STATUS_BAR" :> "privileged_ops")
    @@ ("EXPAND_STATUS_BAR" :> "privileged_ops")
    @@ ("READ_FRAME_BUFFER" :> "privileged_ops")
    @@ ("com.google.android.c2dm.permission.RECEIVE" :> "background_ops")

BENIGN_HINT_PERMS == {
    "AUTHENTICATE_ACCOUNTS", "BLUETOOTH", "BLUETOOTH_ADMIN", "MANAGE_ACCOUNTS", "NFC",
    "NFC_TRANSACTION", "SMARTCARD", "USE_FINGERPRINT",
    "com.google.android.c2dm.permission.RECEIVE",
    "com.google.android.providers.gsf.permission.READ_GSERVICES",
    "org.simalliance.openmobileapi.SMARTCARD" }

\* W, the behaviour weights, in tenths (15.5 is 155)
W ==
       ("sms" :> 155)
    @@ ("dangerous_permissions" :> 162)
    @@ ("admin_operations" :> 150)
    @@ ("dynamic" :> 150)
    @@ ("telephony" :> 118)
    @@ ("root_detection" :> 115)
    @@ ("device_info" :> 70)
    @@ ("banking_targets" :> 115)
    @@ ("media_capture" :> 110)
    @@ ("network" :> 105)
    @@ ("crypto" :> 58)
    @@ ("location" :> 55)
    @@ ("file_operations" :> 30)
    @@ ("anti_debug" :> 53)
    @@ ("background_ops" :> 48)
    @@ ("native_code" :> 50)
    @@ ("reflection" :> 48)
    @@ ("obfuscation" :> 46)
    @@ ("modern_libs" :> 18)
    @@ ("privileged_ops" :> 85)

\* math.log1p(n) in millionths, n = 0..32
LOG1P == <<
    0, 693147, 1098612, 1386294, 1609438, 1791759, 1945910, 2079442, 2197225, 2302585,
    2397895, 2484907, 2564949, 2639057, 2708050, 2772589, 2833213, 2890372, 2944439,
    2995732, 3044522, 3091042, 3135494, 3178054, 3218876, 3258097, 3295837, 3332205,
    3367296, 3401197, 3433987, 3465736, 3496508 >>

\* 120 * math.tanh(j / 16) in millionths, j = 0..65
TANH120 == <<
    0, 7490250, 14922360, 22239984, 29390239, 36325168, 43002888, 49388407, 55454059,
    61179597, 66551967, 71564827, 76217874, 80516049, 84468672, 88088582, 91391299,
    94394257, 97116128, 99576229, 101794037, 103788794, 105579204, 107183201, 108617790,
    109898945, 111041547, 112059365, 112965065, 113770234, 114485431, 115120235, 115683310,
    116182466, 116624730, 117016404, 117363134, 117669966, 117941404, 118181462, 118393716,
    118581343, 118747170, 118893703, 119023167, 119137535, 119238556, 119327778, 119406570,
    119476148, 119537584, 119591827, 119639716, 119681995, 119719318, 119752265, 119781348,
    119807019, 119829679, 119849680, 119867333, 119882914, 119896666, 119908804, 119919516,
    119928970 >>
\* ------------------------------------------------------------------- graphs
\* A networkx DiGraph with the edge attribute "weight": its nodes, and the
\* weight of every edge (the domain of w is the edge set).
EmptyGraph == [nodes |-> {}, w |-> << >>]

Edges(g) == DOMAIN g.w

\* a variant of AddCalls that sets the weight of an edge it finds to k
AddCallsOverwrite(g, src, dst, k) ==
    IF <<src, dst>> \in Edges(g)
    THEN [g EXCEPT !.w[<<src, dst>>] = k]
    ELSE [nodes |-> g.nodes \cup {src, dst},
          w     |-> g.w @@ (<<src, dst>> :> k)]

\* k times "if G.has_edge(src, dst): G[src][dst]['weight'] += 1
\*          else: G.add_edge(src, dst, weight=1)", k >= 1
AddCalls(g, src, dst, k) ==
    IF <<src, dst>> \in Edges(g)
    THEN [g EXCEPT !.w[<<src, dst>>] = @ + k]
    ELSE [nodes |-> g.nodes \cup {src, dst},
          w     |-> g.w @@ (<<src, dst>> :> k)]

\* G.remove_edges_from(...): the nodes stay
RemoveEdges(g, drop) ==
    [nodes |-> g.nodes, w |-> [e \in Edges(g) \ drop |-> g.w[e]]]

\* ------------------------------------------- semantic_graphs: graph builder
cap_per_method == 50

RECURSIVE Xrefs(_)
\* the raw call list of a method, in order; the package holds it as runs
\* [dst, n] of n consecutive calls into class dst
Xrefs(m) ==
    IF m = << >> THEN << >>
    ELSE [i \in 1..m[1].n |-> m[1].dst] \o Xrefs(Tail(m))

\* a variant of ScanRun that never leaves the loop: no cap on the calls of a method
ScanRunNoCap(g, src, run, i) ==
    IF src = run.dst THEN g ELSE AddCalls(g, src, run.dst, run.n)

\* the turns i .. i + run.n - 1 of "for i, (_, callee, _) in enumerate(xrefs)",
\* which all see the callee run.dst: the loop is left at i >= cap_per_method,
\* a call into the caller's own class is skipped, every other one is counted
ScanRun(g, src, run, i) ==
    LET turns == Max(0, Min(run.n, cap_per_method - i)) IN
    IF turns = 0 \/ src = run.dst THEN g
    ELSE AddCalls(g, src, run.dst, turns)

RECURSIVE ScanXrefs(_, _, _, _)
\* the loop over the call list of one method, from turn i on
ScanXrefs(g, src, runs, i) ==
    IF runs = << >> THEN g
    ELSE ScanXrefs(ScanRun(g, src, runs[1], i), src, Tail(runs), i + runs[1].n)

RECURSIVE ScanMethods(_, _, _)
\* for m in cls.get_methods(): ...
ScanMethods(g, c_name, methods) ==
    IF methods = << >> THEN g
    ELSE ScanMethods(ScanXrefs(g, c_name, methods[1], 0), c_name, Tail(methods))

RECURSIVE ScanClasses(_, _)
\* for cls in classes: ...
ScanClasses(g, classes) ==
    IF classes = << >> THEN g
    ELSE LET cls == classes[1] IN
         IF cls.name \in STOP_CLASSES THEN ScanClasses(g, Tail(classes))
         ELSE ScanClasses(ScanMethods(g, cls.name, cls.methods), Tail(classes))

\* a variant of PruneLight that also drops the edges of weight min_weight
PruneLightInclusive(g, mw) ==
    IF mw > 1 THEN RemoveEdges(g, {e \in Edges(g) : g.w[e] <= mw}) ELSE g

\* if min_weight > 1: G.remove_edges_from([... if weight < min_weight])
PruneLight(g, mw) ==
    IF mw > 1 THEN RemoveEdges(g, {e \in Edges(g) : g.w[e] < mw}) ELSE g

\* the graph G of build_api_graph_compact
BuildGraphOf(classes, mw) == PruneLight(ScanClasses(EmptyGraph, classes), mw)

\* int(Path(apk_path).stat().st_size/1024), then max(1, .)
SizeKb(size_bytes) == Max(1, size_bytes \div 1024)

\* the dict written to <stem>.meta.json
MetaOf(permissions, size_bytes) ==
    LET all_perms   == Range(permissions)
        short_perms == {SplitLast(p) : p \in all_perms}
        dangerous   == short_perms \cap DANGEROUS_PERMISSIONS
    IN  [apk_size_kb           |-> SizeKb(size_bytes),
         all_permissions       |-> all_perms,
         dangerous_permissions |-> dangerous,
         danger_perm_hits      |-> Cardinality(dangerous)]

\* -------------------------------------------------- semantic_graphs: analyser
CatSet == Range(Categories)

ZeroCounts == [cat \in CatSet |-> 0]

\* W.get(cat, 1.0), in tenths
Weight(cat) == IF cat \in DOMAIN W THEN W[cat] ELSE 10

\* any(p in nstr for p in pats)
MatchesAny(pats, nstr) == \E i \in DOMAIN pats : Contains(pats[i], nstr)

\* the categories one node is counted in:
\* for cat, pats in CATEGORY_RULES.items(): if any(p in nstr for p in pats)
CategoriesOf(nstr) == {cat \in CatSet : MatchesAny(CATEGORY_RULES[cat], nstr)}

\* CategoriesOf, tabulated over the strings of the model
NodeCategories == Table([s \in DOMAIN Chars |-> CategoriesOf(s)])

\* a variant of GraphCounts that adds one for every pattern that matches
GraphCountsPerPattern(nodes) ==
    Table([cat \in CatSet |->
        Cardinality({p \in nodes \X DOMAIN CATEGORY_RULES[cat] :
                        Contains(CATEGORY_RULES[cat][p[2]], p[1])})])

\* 1) counts_g: for every node and every category, += 1 when any pattern matches
GraphCounts(nodes) ==
    Table([cat \in CatSet |-> Cardinality({n \in nodes : cat \in NodeCategories[n]})])

\* PERM_TO_CATEGORY.get(p) or PERM_TO_CATEGORY.get(short); "" when neither is a key
PermCategory(p, short) ==
    IF p \in DOMAIN PERM_TO_CATEGORY THEN PERM_TO_CATEGORY[p]
    ELSE IF short \in DOMAIN PERM_TO_CATEGORY THEN PERM_TO_CATEGORY[short]
    ELSE ""

\* all_perm_shorts = [p.split(".")[-1] for p in all_permissions]; every entry
\* is kept with the permission it comes from, so that equal entries stay apart
AllPermShorts(all_permissions) == {<<q, SplitLast(q)>> : q \in all_permissions}

\* the entries of the list all_perm_shorts that satisfy Test
CountShorts(all_perm_shorts, Test(_)) ==
    Cardinality({e \in all_perm_shorts : Test(e[2])})

\* the category "for p in all_perm_shorts" finds for p; short is p.split(".")[-1]
CategoryOfShort(p) == PermCategory(p, SplitLast(p))

\* 2) counts_m before the caps
ManifestCounts(all_perm_shorts, danger_perm_hits) ==
    LET cats == {<<e, CategoryOfShort(e[2]), SplitLast(e[2])>> : e \in all_perm_shorts} IN
    Table([cat \in CatSet |->
        (IF cat = "dangerous_permissions" /\ danger_perm_hits > 0
         THEN danger_perm_hits ELSE 0)
        + Cardinality({c \in cats : c[2] = cat})
        + (IF cat = "background_ops"
           THEN Cardinality({c \in cats : c[3] = "C2D_MESSAGE"}) ELSE 0)])

caps_large ==
    ("sms" :> 1) @@ ("dangerous_permissions" :> 3) @@ ("admin_operations" :> 1)
    @@ ("device_info" :> 1) @@ ("file_operations" :> 1) @@ ("background_ops" :> 1)
    @@ ("location" :> 1) @@ ("media_capture" :> 1) @@ ("privileged_ops" :> 1)

caps_normal ==
    ("sms" :> 2) @@ ("dangerous_permissions" :> 6) @@ ("admin_operations" :> 2)
    @@ ("device_info" :> 3) @@ ("file_operations" :> 3) @@ ("background_ops" :> 3)
    @@ ("location" :> 3) @@ ("media_capture" :> 3) @@ ("privileged_ops" :> 2)

\* a variant of CapsFor with the two tables the other way round
CapsSwapped(is_large) == IF is_large THEN caps_normal ELSE caps_large

\* caps = caps_large if is_large else caps_normal
CapsFor(is_large) == IF is_large THEN caps_large ELSE caps_normal

\* 3) for k, v in caps.items(): if counts_m.get(k, 0) > v: counts_m[k] = v
CapCounts(counts_m, is_large) ==
    LET caps == CapsFor(is_large) IN
    Table([cat \in CatSet |->
        IF cat \in DOMAIN caps /\ counts_m[cat] > caps[cat] THEN caps[cat]
        ELSE counts_m[cat]])

\* a variant of RoundHalfEven that rounds halves up
RoundHalfUp(n, d) == (2 * n + d) \div (2 * d)

\* int(round(n / d)) for n >= 0, d > 0: Python rounds halves to even
RoundHalfEven(n, d) ==
    LET fl == n \div d
        r2 == 2 * (n % d)
    IN  IF r2 < d THEN fl
        ELSE IF r2 > d THEN fl + 1
        ELSE IF fl % 2 = 0 THEN fl ELSE fl + 1

\* a variant of BenignSuppress that does not look at the graph counts of sms
\* and admin_operations
SuppressBlind(counts_g, counts_m, is_large, benign_heavy) ==
    IF ~(is_large /\ benign_heavy) THEN counts_m
    ELSE Table([cat \in CatSet |->
            IF cat \in {"sms", "admin_operations"} THEN 0
            ELSE IF cat \in {"device_info", "file_operations"} /\ counts_g[cat] = 0
                 THEN RoundHalfEven(counts_m[cat] * 4, 10)
            ELSE IF cat = "background_ops" /\ counts_g[cat] = 0
                 THEN RoundHalfEven(counts_m[cat] * 5, 10)
            ELSE counts_m[cat]])

\* the graph condition on the manifest counts of a large, benign-hinted package
BenignSuppress(counts_g, counts_m, is_large, benign_heavy) ==
    IF ~(is_large /\ benign_heavy) THEN counts_m
    ELSE Table([cat \in CatSet |->
            IF cat \in {"sms", "admin_operations"} /\ counts_g[cat] = 0 THEN 0
            ELSE IF cat \in {"device_info", "file_operations"} /\ counts_g[cat] = 0
                 THEN RoundHalfEven(counts_m[cat] * 4, 10)
            ELSE IF cat = "background_ops" /\ counts_g[cat] = 0
                 THEN RoundHalfEven(counts_m[cat] * 5, 10)
            ELSE counts_m[cat]])

\* benign_hint_hits
BenignHintHits(all_perm_shorts) ==
    LET InHints(p) == p \in BENIGN_HINT_PERMS
        IsC2D(p)   == p = "C2D_MESSAGE"
    IN  CountShorts(all_perm_shorts, InHints) + CountShorts(all_perm_shorts, IsC2D)

\* a variant of Beta that tests large-or-benign before small
BetaLargeFirst(is_small, is_large, benign_heavy) ==
    IF is_large \/ benign_heavy THEN 10
    ELSE IF is_small THEN 55
    ELSE 25

\* 4) beta, in hundredths
Beta(is_small, is_large, benign_heavy) ==
    IF is_small THEN 55
    ELSE IF is_large \/ benign_heavy THEN 10
    ELSE 25

\* sum(W.get(cat, 1.0) * counts[cat] for cat in counts), in tenths
SemRaw(counts) == SumOver([cat \in CatSet |-> Weight(cat) * counts[cat]], CatSet)

\* _squash(x, K=120.0), x in thousandths, the result in millionths; tanh is
\* read off TANH120 with linear interpolation, and is flat beyond the table
Squash(x) ==
    IF x <= 0 THEN 0
    ELSE LET j == x \div 7500 IN
         IF j + 2 > Len(TANH120) THEN TANH120[Len(TANH120)]
         ELSE LET lo   == TANH120[j + 1]
                  diff == TANH120[j + 2] - lo
                  frac == x % 7500
              IN  lo + (diff \div 7500) * frac + ((diff % 7500) * frac) \div 7500

\* max((d for _, d in G.out_degree()), default=0)
MaxOutDegree(g) ==
    LET deg(n) == Cardinality({e \in Edges(g) : e[1] = n})
        ds     == {deg(n) : n \in g.nodes}
    IN  IF ds = {} THEN 0 ELSE CHOOSE d \in ds : \A x \in ds : x <= d

\* nx.density(G) of a DiGraph, in millionths
Density(g) ==
    LET n == Cardinality(g.nodes)
        m == Cardinality(Edges(g))
    IN  IF m = 0 \/ n <= 1 THEN 0 ELSE (m * 1000000) \div (n * (n - 1))

\* 7) structural, in millionths
Structural(g) ==
    LET N == Cardinality(g.nodes)
        E == Cardinality(Edges(g))
    IN  (6 * (2 * (LOG1P[E + 1] + LOG1P[N + 1]) + 5 * LOG1P[MaxOutDegree(g) + 1]
              + 20 * Density(g))) \div 100

Both(cg, cm, cat) == cg[cat] + cm[cat]

CRIT == <<"sms", "admin_operations", "dynamic", "dangerous_permissions">>

\* if crit_hits >= 2: bonus += 4.0   (bonuses in millionths)
CritBonus(cg, cm) ==
    IF Cardinality({i \in DOMAIN CRIT : Both(cg, cm, CRIT[i]) > 0}) >= 2 THEN 4000000 ELSE 0

\* total_cat_hits
TotalCatHits(cg, cm) == SumOver(cg, CatSet) + SumOver(cm, CatSet)

\* a variant of RiskCore that counts the whole of CRIT
RiskCoreOfCrit(cg, cm) ==
    Both(cg, cm, "sms") + Both(cg, cm, "admin_operations") + Both(cg, cm, "dynamic")
    + Both(cg, cm, "dangerous_permissions")

\* risk_core
RiskCore(cg, cm) ==
    Both(cg, cm, "sms") + Both(cg, cm, "admin_operations") + Both(cg, cm, "dynamic")

\* ratio >= 0.30: += 2.0, elif ratio >= 0.20: += 1.0; ratio is 0.0 when the
\* total is 0.  risk_core / total >= 0.30 is decided on the integers.
RatioBonus(cg, cm) ==
    LET total == TotalCatHits(cg, cm)
        core  == RiskCore(cg, cm)
    IN  IF total > 0 /\ 10 * core >= 3 * total THEN 2000000
        ELSE IF total > 0 /\ 10 * core >= 2 * total THEN 1000000
        ELSE 0

\* a variant of PairBonus that does not ask for a hit of the first category
PairBonusLoose(cg, cm, a, b) ==
    IF (cg[a] > 0 \/ cg[b] > 0) /\ Both(cg, cm, b) > 1 THEN 2000000 ELSE 0

\* the two co-occurrence rules
PairBonus(cg, cm, a, b) ==
    IF (cg[a] > 0 \/ cg[b] > 0) /\ Both(cg, cm, a) > 0 /\ Both(cg, cm, b) > 1
    THEN 2000000 ELSE 0

Bonus(cg, cm) ==
    CritBonus(cg, cm) + RatioBonus(cg, cm)
    + PairBonus(cg, cm, "sms", "device_info")
    + PairBonus(cg, cm, "admin_operations", "crypto")

\* a variant of SizeMult that tests 15000 before 50000
SizeMultMidFirst(apk_size_kb) ==
    IF apk_size_kb = 0 THEN 100
    ELSE IF apk_size_kb <= 1000 THEN 110
    ELSE IF apk_size_kb >= 15000 THEN 92
    ELSE IF apk_size_kb >= 50000 THEN 95
    ELSE 100

\* 9) mult, in hundredths; size is 0 for apk_size_kb None
SizeMult(apk_size_kb) ==
    IF apk_size_kb = 0 THEN 100
    ELSE IF apk_size_kb <= 1000 THEN 110
    ELSE IF apk_size_kb >= 50000 THEN 95
    ELSE IF apk_size_kb >= 15000 THEN 92
    ELSE 100

\* x * m / 100 without leaving 32 bits
MulPct(x, m) == (x \div 100) * m + ((x % 100) * m) \div 100

\* a variant of Total that multiplies the structural term instead
TotalStructuralScaled(sem, bonus, mult, structural) ==
    Max(0, sem + bonus) + MulPct(structural, mult)

\* a variant of Total that multiplies the structural term as well
TotalAllScaled(sem, bonus, mult, structural) ==
    MulPct(Max(0, sem + bonus) + structural, mult)

\* 10) total = max(0.0, sem + bonus) * mult + structural
Total(sem, bonus, mult, structural) ==
    MulPct(Max(0, sem + bonus), mult) + structural

\* what analyze_malware_semantically reads from <stem>.meta.json; the defaults
\* when the file is absent.  apk_size_kb 0 stands for None.
NoMeta == [present |-> FALSE]

ReadMeta(meta_file) ==
    IF meta_file.present
    THEN [apk_size_kb      |-> meta_file.apk_size_kb,
          all_permissions  |-> meta_file.all_permissions,
          danger_perm_hits |-> meta_file.danger_perm_hits]
    ELSE [apk_size_kb |-> 0, all_permissions |-> {}, danger_perm_hits |-> 0]

\* analyze_malware_semantically past the N == 0 return, in three parts; each
\* part is a record of the locals assigned so far.
\* 1) and 2): the flags, counts_g, the uncapped counts_m, and structural
Counted(g, meta) ==
    [N            |-> Cardinality(g.nodes),
     E            |-> Cardinality(Edges(g)),
     apk_size_kb  |-> meta.apk_size_kb,
     is_small     |-> meta.apk_size_kb # 0 /\ meta.apk_size_kb <= 400,
     is_large     |-> meta.apk_size_kb # 0 /\ meta.apk_size_kb >= 15000,
     benign_heavy |-> BenignHintHits(AllPermShorts(meta.all_permissions)) >= 2,
     counts_g     |-> GraphCounts(g.nodes),
     counts_raw   |-> ManifestCounts(AllPermShorts(meta.all_permissions),
                                     meta.danger_perm_hits),
     structural   |-> Structural(g)]

\* 3) and 4): the caps, the graph condition and beta
Suppressed(l) ==
    [counts_cap |-> CapCounts(l.counts_raw, l.is_large),
     counts_m   |-> BenignSuppress(l.counts_g, CapCounts(l.counts_raw, l.is_large),
                                   l.is_large, l.benign_heavy),
     beta       |-> Beta(l.is_small, l.is_large, l.benign_heavy)] @@ l

\* 5) sem, in millionths
Sem(l) ==
    Squash(((SemRaw(l.counts_g) * 100 + l.beta * SemRaw(l.counts_m)) * 800)
           \div (800 + 2 * l.N + l.E))

\* 5) to 10): sem, bonus, mult and the score
Totalled(l) ==
    [sem           |-> Sem(l),
     ratio_bonus   |-> RatioBonus(l.counts_g, l.counts_m),
     bonus         |-> Bonus(l.counts_g, l.counts_m),
     pair_sms      |-> PairBonus(l.counts_g, l.counts_m, "sms", "device_info"),
     pair_admin    |-> PairBonus(l.counts_g, l.counts_m, "admin_operations", "crypto"),
     mult          |-> SizeMult(l.apk_size_kb),
     malware_score |-> Total(Sem(l), Bonus(l.counts_g, l.counts_m),
                             SizeMult(l.apk_size_kb), l.structural)] @@ l

\* every local the score is made of
AnalyzeLocals(g, meta_file) ==
    CHOOSE locals \in
        {Totalled(l) : l \in {Suppressed(k) : k \in
            {Counted(g, meta) : meta \in {ReadMeta(meta_file)}}}} : TRUE

\* the report of analyze_malware_semantically: the early returns have no locals
ZeroReport == [malware_score |-> 0, early |-> TRUE]

Analyze(readable, g, meta_file) ==
    IF ~readable THEN ZeroReport
    ELSE IF Cardinality(g.nodes) = 0 THEN ZeroReport
    ELSE CHOOSE r \in {[malware_score |-> locals.malware_score, early |-> FALSE,
                        locals |-> locals] :
                          locals \in {AnalyzeLocals(g, meta_file)}} : TRUE
\* ------------------------------------------------------------------- state
VARIABLES
    pc,          \* where the program is
    apk,         \* the package being built: what AnalyzeAPK reads from the file
    min_weight,  \* the min_weight given to build_api_graph_compact
    G,           \* the graph build_api_graph_compact returns
    files,       \* malware_graphs/: stem -> [graph, meta], the files written
    report,      \* what analyze_malware_semantically returns
    dataset_dir, \* the benign/ and malware/ directories of the dataset
    subset,      \* the subset argument of stream_score_dataset
    limit,       \* the limit argument of stream_score_dataset: {} is None, {n} is n
    processed,   \* processed of stream_score_dataset
    done,        \* done of stream_score_dataset
    out_csv,     \* the output CSV file
    started      \* how many runs of stream_score_dataset were started

\* the state of the batch driver
driver == <<dataset_dir, subset, limit, processed, done, out_csv, started>>

vars == <<pc, apk, min_weight, G, files, report, driver>>

\* Python's None
None == "None"

NoCsv == [present |-> FALSE, lines |-> << >>]

\* no batch run is going on
NoDriver ==
    /\ dataset_dir = [benign |-> << >>, malware |-> << >>]
    /\ subset = None
    /\ limit = {}
    /\ processed = 0
    /\ done = {}
    /\ out_csv = NoCsv
    /\ started = 0

NoFile == [present |-> FALSE]

NoReport == [malware_score |-> -1, early |-> FALSE]

\* ------------------------------------------------- packages of the bounded runs
ClassA == "La/A;"

ClassB == "Lb/B;"

ClassNames == {ClassA, ClassB, "Ljava/lang/Object;"}

\* a run of n consecutive calls into dst: one call, or as many as the cap
CallRuns ==
    [dst : ClassNames, n : {1}] \cup [dst : {ClassA, ClassB}, n : {cap_per_method}]

RECURSIVE CallLists(_)
\* the call lists of 1..k runs
CallLists(k) ==
    IF k <= 0 THEN {}
    ELSE {<<r>> : r \in CallRuns} \cup {<<r>> \o m : r \in CallRuns, m \in CallLists(k - 1)}

RECURSIVE MethodLists(_)
\* the lists of one or more methods with at most k runs in all
MethodLists(k) ==
    UNION {{<<m>>} \cup {<<m>> \o rest : rest \in MethodLists(k - Len(m))} :
           m \in CallLists(k)}

RECURSIVE TotalRuns(_)
TotalRuns(methods) ==
    IF methods = << >> THEN 0 ELSE Len(methods[1]) + TotalRuns(Tail(methods))

RECURSIVE ClassLists(_)
\* the lists of classes with at most k runs in all
ClassLists(k) ==
    {<< >>} \cup UNION {{<<[name |-> c, methods |-> ms]>> \o rest :
                             rest \in ClassLists(k - TotalRuns(ms))} :
                          c \in ClassNames, ms \in MethodLists(k)}

\* the min_weight arguments: none, 1, the default 2, and one above it
MinWeights == 0..3

\* a.get_permissions() of the packages of the build runs: one permission, twice
BuildPermissions == <<"android.permission.READ_SMS", "android.permission.READ_SMS">>

\* a file AnalyzeAPK cannot parse
InvalidApk == [valid |-> FALSE, classes |-> << >>, permissions |-> << >>, size_bytes |-> 0]

BuildPackages ==
    {InvalidApk} \cup
    {[valid |-> TRUE, classes |-> cs, permissions |-> BuildPermissions,
      size_bytes |-> 2048000] : cs \in ClassLists(MaxRuns)}

\* Path(apk_path).stem of the one package of a build run
OnlyStem == "a"

\* -------------------------------------------------------------- operations
\* build_api_graph_compact(apk_path, min_weight) of semantic_graphs, for the
\* package apk whose files are named stem; AnalyzeAPK raises on a file it cannot
\* parse, and a failure while writing the metadata is swallowed
BuildGraph(stem) ==
    /\ pc = "start"
    /\ IF ~apk.valid
       THEN /\ pc' = "raised"
            /\ UNCHANGED <<G, files>>
       ELSE LET g == BuildGraphOf(apk.classes, min_weight) IN
            /\ pc' = "built"
            /\ G' = g
            /\ \E meta_written \in BOOLEAN :
                 files' = [files EXCEPT ![stem] =
                    [graph |-> [present |-> TRUE, g |-> g],
                     meta  |-> IF meta_written
                               THEN [present |-> TRUE] @@ MetaOf(apk.permissions, apk.size_bytes)
                               ELSE @.meta]]
    /\ UNCHANGED <<apk, min_weight, report, driver>>

\* analyze_malware_semantically(graph_path); nx.read_graphml raises on a file
\* that cannot be read
AnalyzeGraph(stem) ==
    /\ pc = "built"
    /\ \E readable \in BOOLEAN :
         report' = Analyze(readable /\ files[stem].graph.present,
                           files[stem].graph.g, files[stem].meta)
    /\ pc' = "analyzed"
    /\ UNCHANGED <<apk, min_weight, G, files, driver>>

\* ------------------------------------- build and analyse one package
InitBuild ==
    /\ pc = "start"
    /\ apk \in BuildPackages
    /\ min_weight \in MinWeights
    /\ G = EmptyGraph
    /\ files = [s \in {OnlyStem} |-> [graph |-> NoFile, meta |-> NoMeta]]
    /\ report = NoReport
    /\ NoDriver

NextBuild == BuildGraph(OnlyStem) \/ AnalyzeGraph(OnlyStem)

SpecBuild == InitBuild /\ [][NextBuild]_vars

\* ------------------------------------------------ what the builder is asked
\* the methods of a package: <<index of the class, index of the method>>
MethodsOf(classes) ==
    UNION {{<<ci, mi>> : mi \in DOMAIN classes[ci].methods} : ci \in DOMAIN classes}

\* the first cap_per_method entries of the raw call list of method cm
FirstCalls(classes, cm) ==
    LET x == Xrefs(classes[cm[1]].methods[cm[2]]) IN
    SubSeq(x, 1, Min(Len(x), cap_per_method))

\* the calls of method cm, among its first cap_per_method, that leave its class
NonSelfCalls(classes, cm) ==
    LET x == FirstCalls(classes, cm) IN
    Cardinality({i \in DOMAIN x : x[i] # classes[cm[1]].name})

\* the calls the builder counts for the ordered pair (src, dst), read off the
\* package: over every method of every class named src that is not a stop
\* class, the entries among the first cap_per_method of its raw call list that
\* name dst, a call into the caller's own class not being one
ConsideredCalls(classes, src, dst) ==
    IF src = dst \/ src \in STOP_CLASSES THEN 0
    ELSE LET ms == {cm \in MethodsOf(classes) : classes[cm[1]].name = src} IN
         SumOver([cm \in ms |->
                     LET x == FirstCalls(classes, cm) IN
                     Cardinality({i \in DOMAIN x : x[i] = dst})], ms)

TotalWeight(g) == SumOver(g.w, Edges(g))

Built == pc \in {"built", "analyzed"}

\* C1: a package whose graph has no edge left after the filtering and the
\* pruning of build_api_graph_compact is scored 0.0 exactly by
\* analyze_malware_semantically, also when nodes remain.
C1_ZeroEdgesScoreZero ==
    (pc = "analyzed" /\ Edges(files[OnlyStem].graph.g) = {}) => report.malware_score = 0

\* C3: in the graph build_api_graph_compact returns, no edge has a source or a
\* destination that is a member of STOP_CLASSES.
C3_NoStopEndpoint ==
    Built => \A e \in Edges(G) : e[1] \notin STOP_CLASSES /\ e[2] \notin STOP_CLASSES

\* C5, as stated: every method, whatever its class, adds to the total edge
\* weight the number of calls among its first 50 that leave its class.
C5_EveryMethodAdds ==
    (Built /\ min_weight <= 1) =>
        TotalWeight(G) = SumOver([cm \in MethodsOf(apk.classes) |->
                                     NonSelfCalls(apk.classes, cm)],
                                 MethodsOf(apk.classes))

\* C5, amended: the cap is per calling method and self-loops use up its slots:
\* every method of a class that is not in STOP_CLASSES adds to the total edge
\* weight exactly the number of calls among the first 50 of its raw call list
\* that leave its class, never more than 50; the methods of a stop class add
\* nothing.
C5_FanOutCap ==
    Built =>
        LET ms   == MethodsOf(apk.classes)
            live == {cm \in ms : apk.classes[cm[1]].name \notin STOP_CLASSES}
        IN  /\ \A cm \in live :
                 LET c == apk.classes[cm[1]] IN
                 /\ TotalWeight(ScanXrefs(EmptyGraph, c.name, c.methods[cm[2]], 0))
                        = NonSelfCalls(apk.classes, cm)
                 /\ NonSelfCalls(apk.classes, cm) <= cap_per_method
            /\ min_weight <= 1 =>
                 TotalWeight(G) = SumOver([cm \in live |-> NonSelfCalls(apk.classes, cm)], live)

\* a method with more than 50 raw calls, a self-loop among the first 50 and a
\* call out of its class past them, has been built without pruning
C5_Witness ==
    /\ pc = "built"
    /\ min_weight <= 1
    /\ \E cm \in MethodsOf(apk.classes) :
         LET c == apk.classes[cm[1]]
             x == Xrefs(c.methods[cm[2]])
         IN  /\ c.name \notin STOP_CLASSES
             /\ Len(x) > cap_per_method
             /\ \E i \in 1..cap_per_method : x[i] = c.name
             /\ \E i \in (cap_per_method + 1)..Len(x) : x[i] # c.name

\* C6: after build_api_graph_compact there is at most one edge per ordered pair
\* (src, dst); the pair has an edge if and only if the number of calls the
\* builder counts from src to dst is at least max(1, min_weight), and the
\* weight of the edge is that number.
C6_EdgeIffWeight ==
    Built =>
        \A src \in ClassNames, dst \in ClassNames :
            LET n == ConsideredCalls(apk.classes, src, dst) IN
            /\ <<src, dst>> \in Edges(G) <=> n >= Max(1, min_weight)
            /\ <<src, dst>> \in Edges(G) => G.w[<<src, dst>>] = n
            /\ Edges(G) \subseteq ClassNames \X ClassNames

\* an edge of weight 2 or more is kept while another pair, called less often
\* than min_weight, has lost its edge
C6_Witness ==
    /\ pc = "built"
    /\ \E e \in Edges(G) : G.w[e] >= 2
    /\ \E src \in ClassNames, dst \in ClassNames :
         /\ ConsideredCalls(apk.classes, src, dst) > 0
         /\ ConsideredCalls(apk.classes, src, dst) < min_weight

\* ------------------------------------------ analyse a graph file and its meta
\* largest number of nodes of an analysed graph
MaxNodes == 3

NodePool ==
    <<"Lcom/app/Main;", "Landroid/telephony/SmsManager;",
      "Landroid/app/admin/DevicePolicyManager;", "Ldalvik/system/DexClassLoader;",
      "Ljavax/crypto/Cipher;", "Lcom/app/getDeviceIdTask;",
      "Ljava/security/MessageDigest;", "La/A;">>

\* the graphs on the nodes NodePool[i], i in idx: without edges (all pruned),
\* or with the edges of weight 2 from each node to the next one
GraphsOn(idx) ==
    LET nodes == {NodePool[i] : i \in idx}
        next  == {p \in idx \X idx :
                    p[1] < p[2] /\ \A l \in idx : ~(p[1] < l /\ l < p[2])}
        chain == {<<NodePool[p[1]], NodePool[p[2]]>> : p \in next}
    IN  {[nodes |-> nodes, w |-> << >>], [nodes |-> nodes, w |-> [e \in chain |-> 2]]}

\* a built graph has no node (no call counted) or two nodes at least (a call
\* joins two classes)
AnalyzedGraphs ==
    {EmptyGraph} \cup
    UNION {GraphsOn(idx) : idx \in {s \in SUBSET DOMAIN NodePool :
                                      Cardinality(s) >= 2 /\ Cardinality(s) <= MaxNodes}}

PermGroups ==
    << {"android.permission.READ_SMS", "android.permission.SEND_SMS",
        "android.permission.RECEIVE_SMS"},
       {"android.permission.SYSTEM_ALERT_WINDOW", "android.permission.WRITE_SETTINGS",
        "android.permission.DEVICE_ADMIN"},
       {"android.permission.READ_PHONE_STATE", "android.permission.READ_CONTACTS",
        "android.permission.WRITE_CONTACTS", "android.permission.GET_ACCOUNTS"},
       {"android.permission.CAMERA", "android.permission.RECORD_AUDIO",
        "android.permission.ACCESS_FINE_LOCATION", "android.permission.READ_EXTERNAL_STORAGE",
        "android.permission.RECEIVE_BOOT_COMPLETED", "android.permission.WAKE_LOCK",
        "android.permission.INTERNET"},
       {"android.permission.NFC", "android.permission.BLUETOOTH"},
       {"com.app.permission.C2D_MESSAGE", "com.google.android.c2dm.permission.RECEIVE"} >>

\* the permission sets of the analysed packages: unions of groups
PermSets == {UNION {PermGroups[i] : i \in pick} : pick \in SUBSET DOMAIN PermGroups}

RECURSIVE SetToSeq(_)
SetToSeq(S) ==
    IF S = {} THEN << >>
    ELSE LET x == CHOOSE y \in S : TRUE IN <<x>> \o SetToSeq(S \ {x})

\* package sizes in bytes: an empty file, 400 KB, 401 KB, 1000 KB, 1001 KB,
\* 1023 bytes short of 15000 KB, 15000 KB, 49999 KB, 50000 KB
SizesBytes ==
    {0, 409600, 410624, 1024000, 1025024, 15359999, 15360000, 51198976, 51200000}

AnalyzedPackages ==
    {[valid |-> TRUE, classes |-> << >>, permissions |-> SetToSeq(ps), size_bytes |-> sz] :
        ps \in PermSets, sz \in SizesBytes}

\* the graph file of a package and the meta file its build wrote, or no meta
\* file when that write failed
InitAnalyze ==
    /\ pc = "built"
    /\ apk \in AnalyzedPackages
    /\ min_weight = 2
    /\ G \in AnalyzedGraphs
    /\ \E meta_written \in BOOLEAN :
         /\ ~meta_written => apk = CHOOSE p \in AnalyzedPackages : TRUE
         /\ files = [s \in {OnlyStem} |->
                     [graph |-> [present |-> TRUE, g |-> G],
                      meta  |-> IF meta_written
                                THEN [present |-> TRUE] @@ MetaOf(apk.permissions, apk.size_bytes)
                                ELSE NoMeta]]
    /\ report = NoReport
    /\ NoDriver

NextAnalyze == AnalyzeGraph(OnlyStem)

SpecAnalyze == InitAnalyze /\ [][NextAnalyze]_vars

\* ------------------------------------------------ what the analyser is asked
\* the analysis went past its early returns
Scored == pc = "analyzed" /\ ~report.early

\* the size in the meta file the analysis read, 0 when there is none
MetaSizeKb == IF files[OnlyStem].meta.present THEN files[OnlyStem].meta.apk_size_kb ELSE 0

\* C7: after the capping step the manifest count of every capped category is
\* min(uncapped count, cap of the size class), caps_large for a size of
\* 15000 KB or more and caps_normal otherwise; 10 dangerous permissions in a
\* package of normal size give 6.
C7_ManifestCaps ==
    Scored =>
        LET loc  == report.locals
            caps == IF MetaSizeKb >= 15000 THEN caps_large ELSE caps_normal
        IN  /\ \A cat \in DOMAIN caps :
                 loc.counts_cap[cat] = Min(loc.counts_raw[cat], caps[cat])
            /\ (MetaSizeKb < 15000 /\ loc.counts_raw["dangerous_permissions"] = 10)
                   => loc.counts_cap["dangerous_permissions"] = 6

\* ten dangerous permissions in a package below 15000 KB, capped to 6
C7_Witness ==
    /\ Scored
    /\ MetaSizeKb > 0 /\ MetaSizeKb < 15000
    /\ report.locals.counts_raw["dangerous_permissions"] = 10
    /\ report.locals.counts_cap["dangerous_permissions"] = 6

\* C8: in a large (15000 KB or more) and benign-hinted (benign_hint_hits >= 2)
\* package, the final manifest count of sms and of admin_operations is 0 when
\* the graph count of the category is 0 and stays at its capped value when the
\* graph count is positive; in any other package the capped manifest counts are
\* left as they are.
C8_GraphCondition ==
    Scored =>
        LET loc == report.locals IN
        IF MetaSizeKb >= 15000 /\ loc.benign_heavy
        THEN \A c \in {"sms", "admin_operations"} :
                /\ loc.counts_g[c] = 0 => loc.counts_m[c] = 0
                /\ loc.counts_g[c] > 0 => loc.counts_m[c] = loc.counts_cap[c]
        ELSE loc.counts_m = loc.counts_cap

\* a large benign-hinted package that asks for SMS and admin permissions: the
\* graph shows SMS, so that count stays, and no admin class, so that one is 0
C8_Witness ==
    /\ Scored
    /\ MetaSizeKb >= 15000
    /\ report.locals.benign_heavy
    /\ report.locals.counts_g["sms"] > 0
    /\ report.locals.counts_m["sms"] = 1
    /\ report.locals.counts_g["admin_operations"] = 0
    /\ report.locals.counts_cap["admin_operations"] = 1
    /\ report.locals.counts_m["admin_operations"] = 0

\* C9: beta is 0.55 for a known size of 400 KB or less, also with a benign
\* hint; otherwise 0.10 for 15000 KB or more or with a benign hint; otherwise
\* 0.25, as when the size is unknown and there is no hint.
C9_Beta ==
    Scored =>
        LET loc == report.locals IN
        /\ loc.beta \in {55, 10, 25}
        /\ loc.beta = 55 <=> (MetaSizeKb > 0 /\ MetaSizeKb <= 400)
        /\ loc.beta = 10 <=> (~(MetaSizeKb > 0 /\ MetaSizeKb <= 400)
                              /\ (MetaSizeKb >= 15000 \/ loc.benign_heavy))
        /\ (MetaSizeKb = 0 /\ ~loc.benign_heavy) => loc.beta = 25

\* a small package with a benign hint gets 0.55
C9_Witness ==
    /\ Scored
    /\ MetaSizeKb > 0 /\ MetaSizeKb <= 400
    /\ report.locals.benign_heavy
    /\ report.locals.beta = 55

\* the ratio bonus for core hits out of total hits
RatioBonusFor(core, total) ==
    IF total > 0 /\ 10 * core >= 3 * total THEN 2000000
    ELSE IF total > 0 /\ 10 * core >= 2 * total THEN 1000000
    ELSE 0

\* the combined hits of the categories cats
Combined(loc, cats) ==
    SumOver([c \in cats |-> loc.counts_g[c] + loc.counts_m[c]], cats)

\* C10, as stated: the ratio bonus is computed from the combined hits of
\* {sms, admin_operations, dynamic, dangerous_permissions} over the combined
\* hits of all categories.
C10_RatioOfCritSet ==
    Scored =>
        report.locals.ratio_bonus =
            RatioBonusFor(Combined(report.locals, Range(CRIT)), Combined(report.locals, CatSet))

\* C10, amended: the ratio bonus is computed from the combined hits of
\* {sms, admin_operations, dynamic} over the combined hits of all categories,
\* dangerous_permissions counting in the total only: +2.0 from 0.30, +1.0 from
\* 0.20, else 0, and 0 when the total is 0.
C10_RatioOfRiskCore ==
    Scored =>
        report.locals.ratio_bonus =
            RatioBonusFor(Combined(report.locals, {"sms", "admin_operations", "dynamic"}),
                          Combined(report.locals, CatSet))

\* dangerous permissions are counted, and the core hits are between 0.20 and
\* 0.30 of the total: +1.0
C10_Witness ==
    /\ Scored
    /\ Combined(report.locals, {"dangerous_permissions"}) > 0
    /\ report.locals.ratio_bonus = 1000000

\* ------------------------------------- feature_extraction: graph builder
\* largest number of edges of the call graph of a package
MaxEdges == 2

\* the characters before the last ".", all of them when there is none or
\* when it is the first character
BeforeLastDot(cs) ==
    IF LastDot(cs, 2) = 0 THEN cs ELSE SubSeq(cs, 1, LastDot(cs, 2) - 1)

\* Path(apk_path).stem
StemOf(name) == Str(BeforeLastDot(Chars[name]))

RECURSIVE FeScanEdges(_, _)
\* for edge in cg.edges(data=True): the edges are <<class of the caller,
\* class of the callee>>
FeScanEdges(g, edges) ==
    IF edges = << >> THEN g
    ELSE LET src == edges[1][1]
             dst == edges[1][2]
         IN  IF src \in FE_STOP_CLASSES \/ dst \in FE_STOP_CLASSES
             THEN FeScanEdges(g, Tail(edges))
             ELSE FeScanEdges(AddCalls(g, src, dst, 1), Tail(edges))

\* G.remove_nodes_from(list(nx.isolates(G))): a node with a self-loop has
\* neighbours and is no isolate
RemoveIsolates(g) ==
    [nodes |-> {n \in g.nodes : \E e \in Edges(g) : e[1] = n \/ e[2] = n}, w |-> g.w]

\* the graph G of feature_extraction.build_api_graph_compact
FeGraphOf(edges, mw) ==
    LET g == FeScanEdges(EmptyGraph, edges) IN
    RemoveIsolates(RemoveEdges(g, {e \in Edges(g) : g.w[e] < mw}))

\* a sorted list, held as the bag of its entries: entry -> how often it occurs
SortedBag(seq) ==
    [x \in Range(seq) |-> Cardinality({i \in DOMAIN seq : seq[i] = x})]

\* sorted([p.split('.')[-1] for p in all_perms if p.split('.')[-1] in DANGEROUS_PERMISSIONS])
FeDangerous(all_perms) ==
    SortedBag([i \in DOMAIN all_perms |-> SplitLast(all_perms[i])])

\* the entries of the bag b that are in S
BagWithin(b, S) == [x \in DOMAIN b \cap S |-> b[x]]

\* the dict written to <stem>.meta.json; apk_size_kb is in hundredths, and
\* api_counts and is_packed are what the pattern scan and the packing test
\* found in the package
FeMetaOf(p) ==
    [apk_name              |-> p.name,
     apk_size_kb           |-> RoundHalfEven(p.size_bytes * 100, 1024),
     all_permissions       |-> SortedBag(p.permissions),
     dangerous_permissions |-> BagWithin(FeDangerous(p.permissions),
                                         FE_DANGEROUS_PERMISSIONS),
     api_counts            |-> p.api_counts,
     is_packed             |-> IF p.packed THEN 1 ELSE 0]

NoFiles == [graph |-> NoFile, meta |-> NoMeta, graph_tmp |-> NoFile, meta_tmp |-> NoMeta]

\* the cache test, AnalyzeAPK, the scans and the graph, up to the first write:
\* the stored metadata is returned when both files exist and the meta file can
\* be read, {} when the package cannot be parsed
FeBuild(stem) ==
    /\ pc = "fe_start"
    /\ \E readable \in BOOLEAN :
         IF files[stem].graph.present /\ files[stem].meta.present /\ readable
         THEN /\ report' = files[stem].meta
              /\ pc' = "fe_cached"
              /\ G' = G
         ELSE IF ~apk.valid
         THEN /\ report' = << >>
              /\ pc' = "fe_failed"
              /\ G' = G
         ELSE /\ G' = FeGraphOf(apk.edges, min_weight)
              /\ pc' = "fe_built"
              /\ report' = report
    /\ UNCHANGED <<apk, min_weight, files, driver>>

\* nx.write_graphml(G, <stem>.graphml.tmp)
FeWriteGraphTmp(stem) ==
    /\ pc = "fe_built"
    /\ files' = [files EXCEPT ![stem].graph_tmp = [present |-> TRUE, g |-> G]]
    /\ pc' = "fe_graph_tmp"
    /\ UNCHANGED <<apk, min_weight, G, report, driver>>

\* a variant of FeRenameGraph that leaves the .tmp file where it is
FeRenameGraphNot(stem) ==
    /\ pc = "fe_graph_tmp"
    /\ pc' = "fe_graph"
    /\ UNCHANGED <<apk, min_weight, G, files, report, driver>>

\* <stem>.graphml.tmp renamed to <stem>.graphml
FeRenameGraph(stem) ==
    /\ pc = "fe_graph_tmp"
    /\ files' = [files EXCEPT ![stem].graph = files[stem].graph_tmp,
                              ![stem].graph_tmp = NoFile]
    /\ pc' = "fe_graph"
    /\ UNCHANGED <<apk, min_weight, G, report, driver>>

\* json.dump(meta, <stem>.meta.json.tmp)
FeWriteMetaTmp(stem) ==
    /\ pc = "fe_graph"
    /\ files' = [files EXCEPT ![stem].meta_tmp = [present |-> TRUE] @@ FeMetaOf(apk)]
    /\ pc' = "fe_meta_tmp"
    /\ UNCHANGED <<apk, min_weight, G, report, driver>>

\* <stem>.meta.json.tmp renamed to <stem>.meta.json; return meta, graph_path
FeRenameMeta(stem) ==
    /\ pc = "fe_meta_tmp"
    /\ files' = [files EXCEPT ![stem].meta = files[stem].meta_tmp,
                              ![stem].meta_tmp = NoMeta]
    /\ report' = FeMetaOf(apk)
    /\ pc' = "fe_returned"
    /\ UNCHANGED <<apk, min_weight, G, driver>>

\* a file whose writer was stopped before the end of the write
Truncated == [present |-> TRUE, truncated |-> TRUE]

\* the process is stopped inside build_api_graph_compact: between two steps,
\* or in the middle of the write of a .tmp file, which is left truncated
FeCrash(stem) ==
    /\ pc \in {"fe_start", "fe_built", "fe_graph_tmp", "fe_graph", "fe_meta_tmp"}
    /\ pc' = "fe_crashed"
    /\ \/ files' = files
       \/ pc = "fe_built" /\ files' = [files EXCEPT ![stem].graph_tmp = Truncated]
       \/ pc = "fe_graph" /\ files' = [files EXCEPT ![stem].meta_tmp = Truncated]
    /\ UNCHANGED <<apk, min_weight, G, report, driver>>

\* build_api_graph_compact is called again for the package, after a stop or
\* after a return
FeCallAgain ==
    /\ pc \in {"fe_crashed", "fe_returned", "fe_cached", "fe_failed"}
    /\ pc' = "fe_start"
    /\ report' = NoReport
    /\ UNCHANGED <<apk, min_weight, G, files, driver>>

FeClassPairs == ClassNames \X ClassNames

\* the call graphs of at most MaxEdges edges; a class calling itself is one
FeCallGraphs == UNION {[1..n -> FeClassPairs] : n \in 0..MaxEdges}

FePackages ==
    {[valid |-> FALSE, name |-> "a.apk", edges |-> << >>, permissions |-> << >>,
      size_bytes |-> 0, api_counts |-> "api_counts", packed |-> FALSE]}
    \cup
    {[valid |-> TRUE, name |-> "a.apk", edges |-> es,
      permissions |-> BuildPermissions, size_bytes |-> 2048000,
      api_counts |-> "api_counts", packed |-> pk] :
        es \in FeCallGraphs, pk \in BOOLEAN}

\* the files an earlier, completed build of the same stem left
FeEarlier ==
    [graph |-> [present |-> TRUE, g |-> EmptyGraph],
     meta  |-> [present |-> TRUE] @@ FeMetaOf(CHOOSE p \in FePackages : ~p.valid),
     graph_tmp |-> NoFile, meta_tmp |-> NoMeta]

InitFE ==
    /\ pc = "fe_start"
    /\ apk \in FePackages
    /\ min_weight \in {1, 2}
    /\ G = EmptyGraph
    /\ files \in [{StemOf("a.apk")} -> {NoFiles, FeEarlier}]
    /\ report = NoReport
    /\ NoDriver

\* Path(apk_path).stem of the package being built
FeStem == StemOf(apk.name)

NextFE ==
    \/ FeBuild(FeStem)
    \/ FeWriteGraphTmp(FeStem)
    \/ FeRenameGraph(FeStem)
    \/ FeWriteMetaTmp(FeStem)
    \/ FeRenameMeta(FeStem)
    \/ FeCrash(FeStem)
    \/ FeCallAgain

SpecFE == InitFE /\ [][NextFE]_vars

\* the graph of the build is made
FeGraphMade == pc \in {"fe_built", "fe_graph_tmp", "fe_graph", "fe_meta_tmp", "fe_returned"}

\* C4: in the graph feature_extraction.build_api_graph_compact builds, no edge
\* is a self-loop: a call edge whose caller and callee are in the same class is
\* discarded.
C4_NoSelfLoop ==
    FeGraphMade => \A e \in Edges(G) : e[1] # e[2]

\* ----------------------------------- cicmaldroid_batch_scoring: the driver
\* largest number of APK files in the dataset
MaxApks == 2

\* largest number of runs of stream_score_dataset over the dataset
MaxStarts == 2

\* the default of min_weight in semantic_graphs.build_api_graph_compact
DefaultMinWeight == 2

CSV_HEADER == <<"apk_name", "malware_score", "label">>

\* ensure_header(csv_path): the file is made, with the header, when absent
EnsureHeader(csv) ==
    IF csv.present THEN csv ELSE [present |-> TRUE, lines |-> <<CSV_HEADER>>]

\* a variant of LoadDoneSet that passes over the first row after the header
LoadDoneSetFromThird(csv) ==
    IF ~csv.present \/ csv.lines = << >> THEN {}
    ELSE {csv.lines[i][1] : i \in 3..Len(csv.lines)}

\* load_done_set(csv_path): the non-empty values of the apk_name column, or of
\* the first column under a header without apk_name
LoadDoneSet(csv) ==
    IF ~csv.present \/ csv.lines = << >> THEN {}
    ELSE LET fieldnames == csv.lines[1]
             rows       == {csv.lines[i] : i \in 2..Len(csv.lines)}
             col        == IF \E k \in DOMAIN fieldnames : fieldnames[k] = "apk_name"
                           THEN CHOOSE k \in DOMAIN fieldnames :
                                   /\ fieldnames[k] = "apk_name"
                                   /\ \A j \in DOMAIN fieldnames :
                                        fieldnames[j] = "apk_name" => j <= k
                           ELSE 1
         IN  {row[col] : row \in {r \in rows : Len(r) >= col /\ r[col] # ""}}

\* iter_dataset_apks(dataset_dir, subset): the benign files with label 0, then
\* the malware files with label 1, each directory in sorted order
IterDatasetApks(dir, sub) ==
    (IF sub \in {None, "benign"}
     THEN [i \in DOMAIN dir.benign |-> [file |-> dir.benign[i], label |-> 0]]
     ELSE << >>)
    \o
    (IF sub \in {None, "malware"}
     THEN [i \in DOMAIN dir.malware |-> [file |-> dir.malware[i], label |-> 1]]
     ELSE << >>)

\* f"{score:.4f}": the score, in millionths, in ten-thousandths
FormatScore(score) == RoundHalfEven(score, 100)

\* the (apk_path, label) the loop is at
CurrentTask == IterDatasetApks(dataset_dir, subset)[processed]

\* Path(apk_path).stem of the package the loop is at
CurrentStem == StemOf(CurrentTask.file.name)

\* ensure_header, load_done_set and the opening of the CSV for appending
StartRun ==
    /\ pc \in {"idle", "finished"}
    /\ started < MaxStarts
    /\ started' = started + 1
    /\ out_csv' = EnsureHeader(out_csv)
    /\ done' = LoadDoneSet(EnsureHeader(out_csv))
    /\ processed' = 0
    /\ pc' = "loop"
    /\ UNCHANGED <<apk, min_weight, G, files, report, dataset_dir, subset, limit>>

\* the head of the loop: the end of the tasks or the limit ends the run, a
\* name in done is passed over, any other package goes to the builder
NextApk ==
    /\ pc = "loop"
    /\ LET tasks == IterDatasetApks(dataset_dir, subset) IN
       IF processed >= Len(tasks) \/ (\E l \in limit : processed >= l)
       THEN /\ pc' = "finished"
            /\ UNCHANGED <<apk, processed>>
       ELSE /\ processed' = processed + 1
            /\ IF tasks[processed + 1].file.name \in done
               THEN /\ pc' = "loop"
                    /\ apk' = apk
               ELSE /\ pc' = "start"
                    /\ apk' = tasks[processed + 1].file.package
    /\ UNCHANGED <<min_weight, G, files, report, dataset_dir, subset, limit, done,
                   out_csv, started>>

\* writer.writerow([apk_path.name, f"{score:.4f}", label]); f.flush()
AppendRow ==
    /\ pc = "analyzed"
    /\ out_csv' = [out_csv EXCEPT !.lines =
                     Append(@, <<CurrentTask.file.name,
                                 FormatScore(report.malware_score),
                                 CurrentTask.label>>)]
    /\ pc' = "loop"
    /\ UNCHANGED <<apk, min_weight, G, files, report, dataset_dir, subset, limit,
                   processed, done, started>>

\* except Exception: the package is reported and the loop goes on
SkipFailed ==
    /\ pc = "raised"
    /\ pc' = "loop"
    /\ UNCHANGED <<apk, min_weight, G, files, report, driver>>

\* the process is stopped from outside in the middle of a run
Interrupt ==
    /\ pc \in {"loop", "start", "built", "analyzed", "raised"}
    /\ pc' = "idle"
    /\ UNCHANGED <<apk, min_weight, G, files, report, driver>>

\* ------------------------------------------------- the datasets of the runs
\* no class at all: the graph of the package is empty
EmptyApk ==
    [valid |-> TRUE, classes |-> << >>, permissions |-> BuildPermissions,
     size_bytes |-> 2048000]

\* one method of ClassA calls ClassB twice
CallerApk ==
    [valid |-> TRUE,
     classes |-> <<[name |-> ClassA,
                    methods |-> <<<<[dst |-> ClassB, n |-> 1], [dst |-> ClassB, n |-> 1]>>>>]>>,
     permissions |-> BuildPermissions, size_bytes |-> 2048000]

\* one method of ClassB calls ClassA once
SingleCallApk ==
    [valid |-> TRUE,
     classes |-> <<[name |-> ClassB, methods |-> <<<<[dst |-> ClassA, n |-> 1]>>>>]>>,
     permissions |-> BuildPermissions, size_bytes |-> 2048000]

DatasetPackages == {InvalidApk, EmptyApk, CallerApk, SingleCallApk}

\* sorted(dir.glob("*.apk")): the files of a directory, in the order of their names
Directories ==
    {<< >>}
    \cup {<<[name |-> n, package |-> p]>> : n \in {"a.apk", "b.apk"}, p \in DatasetPackages}
    \cup {<<[name |-> "a.apk", package |-> p], [name |-> "b.apk", package |-> q]>> :
            p \in DatasetPackages, q \in DatasetPackages}

Datasets ==
    {d \in [benign : Directories, malware : Directories] :
        Len(d.benign) + Len(d.malware) <= MaxApks}

Init ==
    /\ pc = "idle"
    /\ dataset_dir \in Datasets
    /\ subset \in {None, "benign", "malware"}
    /\ limit \in {{}, {1}}
    /\ processed = 0
    /\ done = {}
    /\ out_csv = NoCsv
    /\ started = 0
    /\ apk = InvalidApk
    /\ min_weight = DefaultMinWeight
    /\ G = EmptyGraph
    /\ files = [s \in {StemOf("a.apk"), StemOf("b.apk")} |->
                  [graph |-> NoFile, meta |-> NoMeta]]
    /\ report = NoReport

Next ==
    \/ StartRun
    \/ NextApk
    \/ BuildGraph(CurrentStem)
    \/ AnalyzeGraph(CurrentStem)
    \/ AppendRow
    \/ SkipFailed
    \/ Interrupt

Spec == Init /\ [][Next]_vars

\* C2: a row with malware_score 0 is appended for an APK only if its built
\* graph is genuinely empty (N == 0); a package whose graph file cannot be read
\* is skipped, not written with score 0.
C2_ZeroRowOnlyEmptyGraph ==
    [][(/\ pc = "analyzed"
        /\ Len(out_csv'.lines) = Len(out_csv.lines) + 1
        /\ out_csv'.lines[Len(out_csv'.lines)][2] = 0)
       => G.nodes = {}]_vars

\* --------------------------------------- what the analyser is asked, further
\* the pair rule as stated: graph evidence for one of the two categories and a
\* combined count of the second above 1
PairAsStated(loc, a, b) ==
    (loc.counts_g[a] > 0 \/ loc.counts_g[b] > 0) /\ loc.counts_g[b] + loc.counts_m[b] > 1

\* C11, as stated: each co-occurrence bonus is awarded if and only if the graph
\* count of one category of the pair is positive and the combined count of the
\* second category is above 1, nothing else being required.
C11_PairWithoutFirst ==
    Scored =>
        /\ report.locals.pair_sms = 2000000
              <=> PairAsStated(report.locals, "sms", "device_info")
        /\ report.locals.pair_admin = 2000000
              <=> PairAsStated(report.locals, "admin_operations", "crypto")

\* C11, amended: each co-occurrence bonus (+2.0, else 0) is awarded if and only
\* if the graph count of one category of the pair is positive, the combined
\* count of the first category is positive and the combined count of the
\* second category is above 1; the pairs are (sms, device_info) and
\* (admin_operations, crypto), and both bonuses are part of bonus.
C11_PairBonus ==
    Scored =>
        LET loc == report.locals
            Rule(a, b) == /\ PairAsStated(loc, a, b)
                          /\ loc.counts_g[a] + loc.counts_m[a] > 0
        IN  /\ loc.pair_sms = IF Rule("sms", "device_info") THEN 2000000 ELSE 0
            /\ loc.pair_admin = IF Rule("admin_operations", "crypto") THEN 2000000 ELSE 0
            /\ loc.bonus >= loc.pair_sms + loc.pair_admin

\* the first bonus is awarded on graph evidence for device_info alone, the
\* sms hit being in the manifest
C11_Witness ==
    /\ Scored
    /\ report.locals.pair_sms = 2000000
    /\ report.locals.counts_g["sms"] = 0
    /\ report.locals.counts_m["sms"] > 0

\* C12: the size multiplier is 1.1 for a size of 1000 KB or less, 0.95 for
\* 50000 KB or more, 0.92 from 15000 KB to below 50000 KB and 1.0 otherwise
\* (between 1000 and 15000 KB, or size unknown); it multiplies max(0, sem +
\* bonus) only, the structural term being added after it.
C12_SizeMultiplier ==
    Scored =>
        LET loc == report.locals
            s   == MetaSizeKb
        IN  /\ (s > 0 /\ s <= 1000) => loc.mult = 110
            /\ s >= 50000 => loc.mult = 95
            /\ (s >= 15000 /\ s < 50000) => loc.mult = 92
            /\ (s = 0 \/ (s > 1000 /\ s < 15000)) => loc.mult = 100
            /\ loc.mult \in {110, 95, 92, 100}
            /\ report.malware_score - loc.structural
                  = MulPct(Max(0, loc.sem + loc.bonus), loc.mult)

\* a package of 50000 KB with a semantic part: 0.95 of it, plus structural
C12_Witness ==
    /\ Scored
    /\ MetaSizeKb >= 50000
    /\ report.locals.mult = 95
    /\ report.locals.sem + report.locals.bonus > 0
    /\ report.locals.structural > 0
    /\ report.malware_score < report.locals.sem + report.locals.bonus
                                + report.locals.structural

\* for the nodes of the analysed graphs: the patterns of each category that
\* occur in the node identifier ("p in nstr"), by their place in the list
PatternsIn ==
    Table([n \in Range(NodePool) |->
             Table([cat \in CatSet |->
                      {i \in DOMAIN CATEGORY_RULES[cat] :
                          Contains(CATEGORY_RULES[cat][i], n)}])])

\* no pattern of any category occurs in any node of the graph
NoCategoryMatch(g) ==
    \A n \in g.nodes : \A cat \in CatSet : PatternsIn[n][cat] = {}

\* the metadata the analysis reads has no permission and no dangerous hit
NoPermissions ==
    \/ ~files[OnlyStem].meta.present
    \/ /\ files[OnlyStem].meta.all_permissions = {}
       /\ files[OnlyStem].meta.danger_perm_hits = 0

\* C13: for a non-empty graph whose nodes match no category pattern, with
\* metadata that has no permissions and no dangerous-permission hit, sem and
\* bonus are 0 and the score is the structural term, whatever the size of the
\* package and its multiplier.
C13_StructuralOnly ==
    (Scored /\ NoCategoryMatch(G) /\ NoPermissions) =>
        /\ report.locals.sem = 0
        /\ report.locals.bonus = 0
        /\ report.malware_score = report.locals.structural

\* such a graph in a package of 1000 KB or less: multiplier 1.1, score structural
C13_Witness ==
    /\ Scored /\ NoCategoryMatch(G) /\ NoPermissions
    /\ files[OnlyStem].meta.present
    /\ report.locals.mult = 110
    /\ report.locals.structural > 0
    /\ report.malware_score = report.locals.structural

\* C14: for every graph and every metadata, a missing meta file included, the
\* malware_score is not negative; past the early returns it is at least the
\* structural term, which is not negative either.
C14_ScoreAtLeastStructural ==
    pc = "analyzed" =>
        /\ report.malware_score >= 0
        /\ ~report.early =>
              /\ report.locals.structural >= 0
              /\ report.malware_score >= report.locals.structural

\* a graph scored without a meta file, above its structural term
C14_Witness ==
    /\ Scored
    /\ ~files[OnlyStem].meta.present
    /\ report.locals.structural > 0
    /\ report.malware_score > report.locals.structural

\* the (node, pattern) pairs of category cat: the pattern occurs in the node
MatchingPairs(g, cat) ==
    {p \in g.nodes \X DOMAIN CATEGORY_RULES[cat] : p[2] \in PatternsIn[p[1]][cat]}

\* C20, as stated: counts_g[c] is the number of (node, pattern) pairs with the
\* pattern in CATEGORY_RULES[c] and a substring of the node identifier, every
\* matching pattern adding one.
C20_CountsPairs ==
    Scored => \A cat \in CatSet :
        report.locals.counts_g[cat] = Cardinality(MatchingPairs(G, cat))

\* C20: counts_g[c] is the number of nodes whose identifier contains at least
\* one pattern of CATEGORY_RULES[c] (case-sensitive substring): a node adds at
\* most one to a category, and may add one to several categories.
C20_CountsNodes ==
    Scored => \A cat \in CatSet :
        report.locals.counts_g[cat] =
            Cardinality({n \in G.nodes : \E p \in MatchingPairs(G, cat) : p[1] = n})

\* a node matched by two crypto patterns and counted once; a node counted in
\* two categories
C20_Witness ==
    /\ Scored
    /\ report.locals.counts_g["crypto"] = 1
    /\ Cardinality(MatchingPairs(G, "crypto")) = 2
    /\ \E n \in G.nodes : \E c1, c2 \in CatSet :
          /\ c1 # c2
          /\ \E p \in MatchingPairs(G, c1) : p[1] = n
          /\ \E p \in MatchingPairs(G, c2) : p[1] = n

\* C18: without a metadata file next to the graph no score is computed, and
\* build_api_graph_compact returns no graph when it could not write the
\* metadata.
C18_NoScoreWithoutMeta ==
    /\ pc = "built" => files[OnlyStem].meta.present
    /\ Scored => files[OnlyStem].meta.present

\* ------------------------------------------------- what the driver is asked
\* the values of the apk_name column of the CSV
NamesIn(csv) ==
    IF ~csv.present THEN {} ELSE {csv.lines[i][1] : i \in 2..Len(csv.lines)}

\* the rows of csv are the first rows of later, as they were
AppendedOnly(csv, later) ==
    csv.present =>
        /\ later.present
        /\ Len(later.lines) >= Len(csv.lines)
        /\ SubSeq(later.lines, 1, Len(csv.lines)) = csv.lines

AnalysisFailed == pc = "analyzed" /\ report.early /\ G.nodes # {}

\* C15: in stream_score_dataset a failure while building or analysing one APK
\* is package-scoped: no row is written for that APK, the run does not end
\* with it, and the loop goes on to the tasks that follow.
C15_FailureWritesNoRow ==
    [][(pc = "raised" \/ AnalysisFailed) =>
          /\ out_csv' = out_csv
          /\ pc' \in {"loop", "idle"}
          /\ UNCHANGED <<processed, done, dataset_dir, subset, limit>>]_vars

\* ------------------------------------------ graph_features: the metrics
\* largest number of nodes of a graph given to compute_graph_metrics
MaxMetricNodes == 3

\* largest number of edges of such a graph
MaxMetricEdges == 3

METRIC_KEYS ==
    {"node_count", "edge_count", "density", "avg_betweenness", "avg_clustering",
     "pagerank_max", "avg_in_degree", "avg_out_degree"}

\* the six metrics, node_count and edge_count left out
SIX_METRICS == METRIC_KEYS \ {"node_count", "edge_count"}

\* the return value on an empty graph
EmptyMetrics == [k \in METRIC_KEYS |-> 0]

\* the paths of g without a repeated node, as sequences of two nodes or more
SimplePaths(g) ==
    {p \in UNION {[1..k -> g.nodes] : k \in 2..Max(2, Cardinality(g.nodes))} :
        /\ \A i, j \in DOMAIN p : i # j => p[i] # p[j]
        /\ \A i \in 1..(Len(p) - 1) : <<p[i], p[i + 1]>> \in Edges(g)}

\* the sum of the weights along p
PathWeight(g, p) == SumOver([i \in 1..(Len(p) - 1) |-> g.w[<<p[i], p[i + 1]>>]],
                            1..(Len(p) - 1))

\* the shortest of the paths ps that lead from s to t
ShortestPaths(g, ps, s, t) ==
    LET st == {p \in ps : p[1] = s /\ p[Len(p)] = t} IN
    {p \in st : \A q \in st : PathWeight(g, p) <= PathWeight(g, q)}

\* the share of the shortest paths from s to t that pass through v, in millionths
PairDependency(g, ps, s, t, v) ==
    LET sp == ShortestPaths(g, ps, s, t) IN
    IF sp = {} THEN 0
    ELSE (Cardinality({p \in sp : \E i \in 2..(Len(p) - 1) : p[i] = v}) * 1000000)
         \div Cardinality(sp)

\* nx.betweenness_centrality(G, weight='weight') of node v, in millionths:
\* normalized by 1 / ((n - 1)(n - 2)) when n > 2, end points not counted
BetweennessOf(g, ps, v) ==
    LET n     == Cardinality(g.nodes)
        pairs == {st \in g.nodes \X g.nodes : st[1] # st[2] /\ st[1] # v /\ st[2] # v}
        total == SumOver([st \in pairs |-> PairDependency(g, ps, st[1], st[2], v)], pairs)
    IN  IF n > 2 THEN total \div ((n - 1) * (n - 2)) ELSE total

\* np.mean(list(betweenness.values())), in millionths
AvgBetweenness(g) ==
    CHOOSE avg \in {SumOver([v \in g.nodes |-> BetweennessOf(g, ps, v)], g.nodes)
                      \div Cardinality(g.nodes) : ps \in {SimplePaths(g)}} : TRUE

\* G.to_undirected(): the neighbours of n
Neighbours(g, n) ==
    {m \in g.nodes : m # n /\ (<<n, m>> \in Edges(g) \/ <<m, n>> \in Edges(g))}

\* nx.clustering(G_undirected, weight='weight') of node u, in millionths; with
\* one weight on every edge each triangle counts for 1
ClusteringOf(g, u) ==
    LET nb == Neighbours(g, u)
        d  == Cardinality(nb)
        tr == {vw \in SUBSET nb : Cardinality(vw) = 2 /\
                  \A v \in vw : \A w \in vw : v # w => w \in Neighbours(g, v)}
    IN  IF d < 2 THEN 0 ELSE (2 * Cardinality(tr) * 1000000) \div (d * (d - 1))

\* np.mean(list(clustering.values())), in millionths
AvgClustering(g) ==
    SumOver([u \in g.nodes |-> ClusteringOf(g, u)], g.nodes) \div Cardinality(g.nodes)

\* the weight of the undirected edge between m and n
UndirectedWeight(g, m, n) ==
    IF <<m, n>> \in Edges(g) THEN g.w[<<m, n>>] ELSE g.w[<<n, m>>]

\* the sum of the weights of the undirected edges at m
Strength(g, m) ==
    SumOver([n \in Neighbours(g, m) |-> UndirectedWeight(g, m, n)], Neighbours(g, m))

\* one step of the power iteration of nx.pagerank (alpha = 0.85), x in
\* millionths: the rank of the nodes without an edge is shared by all nodes
PagerankStep(g, x) ==
    LET N        == Cardinality(g.nodes)
        dangling == SumOver([m \in g.nodes |-> IF Neighbours(g, m) = {} THEN x[m] ELSE 0],
                            g.nodes)
    IN  Table([n \in g.nodes |->
            (85 * (SumOver([m \in Neighbours(g, n) |->
                               (x[m] * UndirectedWeight(g, m, n)) \div Strength(g, m)],
                           Neighbours(g, n))
                   + dangling \div N)) \div 100
            + 150000 \div N])

RECURSIVE PagerankIterate(_, _, _)
\* max_iter steps at most; ends when the change is below N * tol, tol = 1e-6
PagerankIterate(g, x, max_iter) ==
    IF max_iter = 0 THEN [converged |-> FALSE, x |-> x]
    ELSE LET next == CHOOSE y \in {PagerankStep(g, x)} : TRUE
             err  == SumOver([n \in g.nodes |->
                                 IF next[n] >= x[n] THEN next[n] - x[n] ELSE x[n] - next[n]],
                             g.nodes)
         IN  IF err < Cardinality(g.nodes) THEN [converged |-> TRUE, x |-> next]
             ELSE PagerankIterate(g, next, max_iter - 1)

\* nx.pagerank(G_undirected, weight='weight', max_iter=100, tol=1e-6)
Pagerank(g) ==
    PagerankIterate(g, Table([n \in g.nodes |-> 1000000 \div Cardinality(g.nodes)]), 100)

\* max(pagerank.values())
MaxValue(x) == CHOOSE v \in Range(x) : \A u \in Range(x) : u <= v

\* a variant of PagerankFallback that substitutes 0.0
PagerankFallbackZero(N) == 0

\* 1.0 / N if N > 0 else 0.0, in millionths
PagerankFallback(N) == IF N > 0 THEN 1000000 \div N ELSE 0

\* np.mean(in_degrees), np.mean(out_degrees): E / N, in millionths
AvgDegree(g) == (Cardinality(Edges(g)) * 1000000) \div Cardinality(g.nodes)

\* metrics[key] = value
SetMetric(metrics, key, value) ==
    [k \in DOMAIN metrics \cup {key} |-> IF k = key THEN value ELSE metrics[k]]

\* N, E and the return on an empty graph
GmCount ==
    /\ pc = "gm_start"
    /\ IF Cardinality(G.nodes) = 0
       THEN /\ report' = EmptyMetrics
            /\ pc' = "gm_returned"
       ELSE /\ report' = [k \in {"node_count", "edge_count"} |->
                            IF k = "node_count" THEN Cardinality(G.nodes)
                            ELSE Cardinality(Edges(G))]
            /\ pc' = "gm_density"
    /\ UNCHANGED <<apk, min_weight, G, files, driver>>

\* metrics['density'] = nx.density(G)
GmDensity ==
    /\ pc = "gm_density"
    /\ report' = SetMetric(report, "density", Density(G))
    /\ pc' = "gm_betweenness"
    /\ UNCHANGED <<apk, min_weight, G, files, driver>>

\* the try block of the betweenness: the computation may raise
GmBetweenness ==
    /\ pc = "gm_betweenness"
    /\ \E raised \in BOOLEAN :
         IF raised
         THEN /\ report' = report
              /\ pc' = "gm_betweenness_except"
         ELSE /\ report' = SetMetric(report, "avg_betweenness", AvgBetweenness(G))
              /\ pc' = "gm_clustering"
    /\ UNCHANGED <<apk, min_weight, G, files, driver>>

\* except: metrics['avg_betweenness'] = 0.0
GmBetweennessExcept ==
    /\ pc = "gm_betweenness_except"
    /\ report' = SetMetric(report, "avg_betweenness", 0)
    /\ pc' = "gm_clustering"
    /\ UNCHANGED <<apk, min_weight, G, files, driver>>

\* the try block of the clustering
GmClustering ==
    /\ pc = "gm_clustering"
    /\ \E raised \in BOOLEAN :
         IF raised
         THEN /\ report' = report
              /\ pc' = "gm_clustering_except"
         ELSE /\ report' = SetMetric(report, "avg_clustering", AvgClustering(G))
              /\ pc' = "gm_pagerank"
    /\ UNCHANGED <<apk, min_weight, G, files, driver>>

\* except: metrics['avg_clustering'] = 0.0
GmClusteringExcept ==
    /\ pc = "gm_clustering_except"
    /\ report' = SetMetric(report, "avg_clustering", 0)
    /\ pc' = "gm_pagerank"
    /\ UNCHANGED <<apk, min_weight, G, files, driver>>

\* the try block of the pagerank: nx.pagerank raises when the iteration has
\* not converged, and the computation may raise for another reason
GmPagerank ==
    /\ pc = "gm_pagerank"
    /\ \E raised \in BOOLEAN : \E pagerank \in {Pagerank(G)} :
         IF raised \/ ~pagerank.converged
         THEN /\ report' = report
              /\ pc' = "gm_pagerank_except"
         ELSE /\ report' = SetMetric(report, "pagerank_max", MaxValue(pagerank.x))
              /\ pc' = "gm_degrees"
    /\ UNCHANGED <<apk, min_weight, G, files, driver>>

\* except: metrics['pagerank_max'] = 1.0 / N if N > 0 else 0.0
GmPagerankExcept ==
    /\ pc = "gm_pagerank_except"
    /\ report' = SetMetric(report, "pagerank_max", PagerankFallback(Cardinality(G.nodes)))
    /\ pc' = "gm_degrees"
    /\ UNCHANGED <<apk, min_weight, G, files, driver>>

\* the degree statistics and the return
GmDegrees ==
    /\ pc = "gm_degrees"
    /\ report' = SetMetric(SetMetric(report, "avg_in_degree", AvgDegree(G)),
                           "avg_out_degree", AvgDegree(G))
    /\ pc' = "gm_returned"
    /\ UNCHANGED <<apk, min_weight, G, files, driver>>

\* the nodes of the graphs given to compute_graph_metrics
MetricNodePool == <<"La/A;", "Lb/B;", "Lcom/app/Main;", "Landroid/telephony/SmsManager;">>

\* the graphs on the first k nodes of the pool, every edge of weight 2, no
\* edge from a node to itself
MetricGraphs ==
    UNION {{[nodes |-> {MetricNodePool[i] : i \in 1..k}, w |-> [e \in es |-> 2]] :
              es \in {s \in SUBSET {e \in {MetricNodePool[i] : i \in 1..k}
                                            \X {MetricNodePool[i] : i \in 1..k} : e[1] # e[2]} :
                        Cardinality(s) <= MaxMetricEdges}} :
           k \in 0..Min(MaxMetricNodes, Len(MetricNodePool))}

InitMetrics ==
    /\ pc = "gm_start"
    /\ apk = InvalidApk
    /\ min_weight = DefaultMinWeight
    /\ G \in MetricGraphs
    /\ files = [s \in {OnlyStem} |-> [graph |-> NoFile, meta |-> NoMeta]]
    /\ report = << >>
    /\ NoDriver

NextMetrics ==
    \/ GmCount
    \/ GmDensity
    \/ GmBetweenness
    \/ GmBetweennessExcept
    \/ GmClustering
    \/ GmClusteringExcept
    \/ GmPagerank
    \/ GmPagerankExcept
    \/ GmDegrees

SpecMetrics == InitMetrics /\ [][NextMetrics]_vars

\* compute_graph_metrics has returned, or is about to, from a graph with nodes
GmKeptMetrics == \A k \in DOMAIN report : k \in DOMAIN report' /\ report'[k] = report[k]

\* C19, as stated: on a graph with nodes a failed metric computation is
\* recovered where it fails, all keys are returned and the value of the failed
\* metric is 0.0; on an empty graph the six metrics are 0.0.
C19_FailedMetricIsZero ==
    [][/\ pc = "gm_betweenness_except" =>
             pc' = "gm_clustering" /\ report'["avg_betweenness"] = 0
       /\ pc = "gm_clustering_except" =>
             pc' = "gm_pagerank" /\ report'["avg_clustering"] = 0
       /\ pc = "gm_pagerank_except" =>
             pc' = "gm_degrees" /\ report'["pagerank_max"] = 0
       /\ pc # "gm_start" => GmKeptMetrics
       /\ pc' = "gm_returned" =>
             /\ DOMAIN report' = METRIC_KEYS
             /\ G.nodes = {} => \A k \in SIX_METRICS : report'[k] = 0]_vars

\* C19: on a graph with N > 0 nodes a failed betweenness or clustering
\* computation leaves 0.0 for its metric and a failed pagerank leaves 1 / N;
\* the function goes on with the next metric, keeps what it has set and
\* returns all keys; on an empty graph the six metrics are 0.0.
C19_LocalRecovery ==
    [][/\ pc = "gm_betweenness_except" =>
             pc' = "gm_clustering" /\ report'["avg_betweenness"] = 0
       /\ pc = "gm_clustering_except" =>
             pc' = "gm_pagerank" /\ report'["avg_clustering"] = 0
       /\ pc = "gm_pagerank_except" =>
             /\ pc' = "gm_degrees"
             /\ report'["pagerank_max"] * Cardinality(G.nodes) <= 1000000
             /\ (report'["pagerank_max"] + 1) * Cardinality(G.nodes) > 1000000
       /\ pc # "gm_start" => GmKeptMetrics
       /\ pc' = "gm_returned" =>
             /\ DOMAIN report' = METRIC_KEYS
             /\ G.nodes = {} => \A k \in SIX_METRICS : report'[k] = 0]_vars

\* returned from a graph of three nodes after a failed betweenness and a
\* failed pagerank: 0.0 where the betweenness is positive, 1/3 where the
\* pagerank has a larger maximum
C19_Witness ==
    /\ pc = "gm_returned"
    /\ Cardinality(G.nodes) = 3
    /\ report["avg_betweenness"] = 0
    /\ AvgBetweenness(G) > 0
    /\ report["pagerank_max"] = 333333
    /\ Pagerank(G).converged
    /\ MaxValue(Pagerank(G).x) > 333333

\* ------------------------------ batch_extract_features: the parallel workers
\* the worker processes of the pool, one task each
Workers == {1, 2}

\* the row of process_single_apk: the features extract_features reads from the
\* meta file, and the graph it read, from which the counts, the metrics and
\* benign_ratio are computed
FeatureRow(g, meta) ==
    [apk_name             |-> meta.apk_name,
     apk_size_kb          |-> meta.apk_size_kb,
     node_count           |-> Cardinality(g.nodes),
     edge_count           |-> Cardinality(Edges(g)),
     is_packed            |-> meta.is_packed,
     dangerous_perm_count |-> SumOver(meta.dangerous_permissions,
                                      DOMAIN meta.dangerous_permissions),
     api_counts           |-> meta.api_counts,
     graph                |-> g]

\* Path(apk_path).stem of the task of worker w
ParStem(w) == StemOf(apk[w].name)

\* build_api_graph_compact(str(apk_path)) in worker w, up to the first write:
\* the cache test returns the stored metadata, a package that cannot be parsed
\* returns {}, both with graph_path
ParBuild ==
    \E w \in Workers :
        /\ pc[w] = "par_start"
        /\ \E readable \in BOOLEAN :
             IF files[ParStem(w)].graph.present /\ files[ParStem(w)].meta.present /\ readable
             THEN /\ pc' = [pc EXCEPT ![w] = "par_check"]
                  /\ G' = G
             ELSE IF ~apk[w].valid
             THEN /\ pc' = [pc EXCEPT ![w] = "par_check"]
                  /\ G' = G
             ELSE /\ G' = [G EXCEPT ![w] = FeGraphOf(apk[w].edges, min_weight)]
                  /\ pc' = [pc EXCEPT ![w] = "par_built"]
        /\ UNCHANGED <<apk, min_weight, files, report, driver>>

\* nx.write_graphml(G, <stem>.graphml.tmp)
ParWriteGraphTmp ==
    \E w \in Workers :
        /\ pc[w] = "par_built"
        /\ files' = [files EXCEPT ![ParStem(w)].graph_tmp = [present |-> TRUE, g |-> G[w]]]
        /\ pc' = [pc EXCEPT ![w] = "par_graph_tmp"]
        /\ UNCHANGED <<apk, min_weight, G, report, driver>>

\* <stem>.graphml.tmp renamed to <stem>.graphml; the rename raises when the
\* .tmp file is not there any more, and process_single_apk returns no row
ParRenameGraph ==
    \E w \in Workers :
        /\ pc[w] = "par_graph_tmp"
        /\ IF files[ParStem(w)].graph_tmp.present
           THEN /\ files' = [files EXCEPT ![ParStem(w)].graph = files[ParStem(w)].graph_tmp,
                                          ![ParStem(w)].graph_tmp = NoFile]
                /\ pc' = [pc EXCEPT ![w] = "par_graph"]
           ELSE /\ files' = files
                /\ pc' = [pc EXCEPT ![w] = "par_error"]
        /\ UNCHANGED <<apk, min_weight, G, report, driver>>

\* json.dump(meta, <stem>.meta.json.tmp)
ParWriteMetaTmp ==
    \E w \in Workers :
        /\ pc[w] = "par_graph"
        /\ files' = [files EXCEPT ![ParStem(w)].meta_tmp =
                                     [present |-> TRUE] @@ FeMetaOf(apk[w])]
        /\ pc' = [pc EXCEPT ![w] = "par_meta_tmp"]
        /\ UNCHANGED <<apk, min_weight, G, report, driver>>

\* <stem>.meta.json.tmp renamed to <stem>.meta.json; return meta, graph_path
ParRenameMeta ==
    \E w \in Workers :
        /\ pc[w] = "par_meta_tmp"
        /\ IF files[ParStem(w)].meta_tmp.present
           THEN /\ files' = [files EXCEPT ![ParStem(w)].meta = files[ParStem(w)].meta_tmp,
                                          ![ParStem(w)].meta_tmp = NoMeta]
                /\ pc' = [pc EXCEPT ![w] = "par_check"]
           ELSE /\ files' = files
                /\ pc' = [pc EXCEPT ![w] = "par_error"]
        /\ UNCHANGED <<apk, min_weight, G, report, driver>>

\* "if not graph_path or not Path(graph_path).exists()", then the
\* nx.read_graphml(graph_path) of extract_features
ParReadGraph ==
    \E w \in Workers :
        /\ pc[w] = "par_check"
        /\ IF files[ParStem(w)].graph.present
           THEN /\ G' = [G EXCEPT ![w] = files[ParStem(w)].graph.g]
                /\ pc' = [pc EXCEPT ![w] = "par_graph_read"]
           ELSE /\ G' = G
                /\ pc' = [pc EXCEPT ![w] = "par_error"]
        /\ UNCHANGED <<apk, min_weight, files, report, driver>>

\* json.load of the meta file in extract_features, the features and the row;
\* without the meta file the features hold "error" and there is no row
ParReadMeta ==
    \E w \in Workers :
        /\ pc[w] = "par_graph_read"
        /\ IF files[ParStem(w)].meta.present
           THEN /\ report' = [report EXCEPT ![w] = FeatureRow(G[w], files[ParStem(w)].meta)]
                /\ pc' = [pc EXCEPT ![w] = "par_row"]
           ELSE /\ report' = report
                /\ pc' = [pc EXCEPT ![w] = "par_error"]
        /\ UNCHANGED <<apk, min_weight, G, files, driver>>

\* the packages of the tasks: one that cannot be parsed, one without a call,
\* and two with one call each, the second one packed
ParContents ==
    {[valid |-> FALSE, edges |-> << >>, packed |-> FALSE, size_bytes |-> 1024000],
     [valid |-> TRUE, edges |-> << >>, packed |-> FALSE, size_bytes |-> 2048000],
     [valid |-> TRUE, edges |-> <<<<ClassA, ClassB>>>>, packed |-> FALSE,
      size_bytes |-> 2048000],
     [valid |-> TRUE, edges |-> <<<<ClassB, ClassA>>>>, packed |-> TRUE,
      size_bytes |-> 4096000]}

\* the package of content c under the file name n
ParPackage(n, c) ==
    [valid |-> c.valid, name |-> n, edges |-> c.edges, permissions |-> BuildPermissions,
     size_bytes |-> c.size_bytes, api_counts |-> "api_counts", packed |-> c.packed]

\* iter_dataset_apks: worker 1 has benign/a.apk, worker 2 has malware/a.apk or
\* malware/b.apk; ./graph_files is empty
InitPar ==
    /\ pc = [w \in Workers |-> "par_start"]
    /\ \E c1, c2 \in ParContents : \E n2 \in {"a.apk", "b.apk"} :
         apk = [w \in Workers |-> IF w = 1 THEN ParPackage("a.apk", c1)
                                  ELSE ParPackage(n2, c2)]
    /\ min_weight = 1
    /\ G = [w \in Workers |-> EmptyGraph]
    /\ files = [s \in {StemOf("a.apk"), StemOf("b.apk")} |-> NoFiles]
    /\ report = [w \in Workers |-> NoReport]
    /\ NoDriver

NextPar ==
    \/ ParBuild
    \/ ParWriteGraphTmp
    \/ ParRenameGraph
    \/ ParWriteMetaTmp
    \/ ParRenameMeta
    \/ ParReadGraph
    \/ ParReadMeta

SpecPar == InitPar /\ [][NextPar]_vars

\* the row a package gives when it is processed alone
OwnRow(p) == FeatureRow(FeGraphOf(p.edges, min_weight), FeMetaOf(p))

\* C16: under parallel extraction the feature row produced for an APK depends
\* on the content of that APK only, also when a benign and a malware APK have
\* the same file stem: every row a worker returns is the row of its own
\* package.
C16_RowOfOwnPackage ==
    \A w \in Workers :
        pc[w] = "par_row" => apk[w].valid /\ report[w] = OwnRow(apk[w])

\* --------------------------------------- the builder and the visiting order
\* the sequences that hold the entries of seq in another order
Perms(seq) ==
    {[i \in DOMAIN seq |-> seq[p[i]]] :
        p \in {q \in [DOMAIN seq -> DOMAIN seq] :
                 \A i, j \in DOMAIN seq : i # j => q[i] # q[j]}}

\* the class cls with its methods in every order; the call list of a method
\* is left as it is
MethodOrders(cls) == {[name |-> cls.name, methods |-> ms] : ms \in Perms(cls.methods)}

\* the orders in which "for cls in classes: for m in cls.get_methods()" can
\* visit the classes and methods of a package
VisitingOrders(classes) ==
    UNION {{cs \in [DOMAIN classes -> UNION {MethodOrders(q[i]) : i \in DOMAIN q}] :
              \A i \in DOMAIN classes : cs[i] \in MethodOrders(q[i])} :
           q \in Perms(classes)}

\* C21: semantic_graphs.build_api_graph_compact does not depend on the order
\* of the visit: whatever the order of the classes and of the methods of each
\* class, every call list kept as it is, the nodes, the edges and the weights
\* of the graph are the same.
C21_OrderIndependent ==
    pc = "built" =>
        \A cs \in VisitingOrders(apk.classes) : BuildGraphOf(cs, min_weight) = G

\* a package that can be visited in more than one order, two of its methods
\* adding to the weight of one edge, beyond what one method can add
C21_Witness ==
    /\ pc = "built"
    /\ Cardinality(VisitingOrders(apk.classes)) > 1
    /\ \E e \in Edges(G) : G.w[e] > cap_per_method

\* ------------------------------------------ semantic_graphs: _squash in floats
\* A float is [neg, b]: its sign and the bit pattern of its magnitude in the
\* IEEE 754 double format, as <<the 22 high bits, the 21 middle bits, the 21
\* low bits>>; among the floats of one sign the order of the patterns is the
\* order of the magnitudes.

\* the floats x the function is called with, by magnitude
SQUASH_POSITIVE ==
    {<<0, 0, 1>>,
     <<0, 0, 2024>>,
     <<1024, 0, 0>>,
     <<26971, 1113623, 1635161>>,
     <<707327, 1668900, 918832>>,
     <<1013471, 458446, 1555899>>,
     <<1037336, 1207959, 1157628>>,
     <<1046528, 0, 0>>,
     <<1047552, 0, 0>>,
     <<1047552, 0, 1>>,
     <<1050880, 0, 0>>,
     <<1051904, 0, 0>>,
     <<1052544, 0, 0>>,
     <<1052928, 0, 0>>,
     <<1053248, 0, 0>>,
     <<1053568, 0, 0>>,
     <<1053792, 0, 0>>,
     <<1053952, 0, 0>>,
     <<1054112, 0, 0>>,
     <<1054272, 0, 0>>,
     <<1054432, 0, 0>>,
     <<1054592, 0, 0>>,
     <<1054592, 0, 1>>,
     <<1054736, 0, 0>>,
     <<1054816, 0, 0>>,
     <<1054896, 0, 0>>,
     <<1054976, 0, 0>>,
     <<1055056, 0, 0>>,
     <<1055136, 0, 0>>,
     <<1055216, 0, 0>>,
     <<1055296, 0, 0>>,
     <<1055376, 0, 0>>,
     <<1055456, 0, 0>>,
     <<1055536, 0, 0>>,
     <<1055616, 0, 0>>,
     <<1055696, 0, 0>>,
     <<1055760, 0, 0>>,
     <<1055800, 0, 0>>,
     <<1055840, 0, 0>>,
     <<1055880, 0, 0>>,
     <<1055920, 0, 0>>,
     <<1055960, 0, 0>>,
     <<1056000, 0, 0>>,
     <<1056040, 0, 0>>,
     <<1056080, 0, 0>>,
     <<1056120, 0, 0>>,
     <<1056160, 0, 0>>,
     <<1056200, 0, 0>>,
     <<1056240, 0, 0>>,
     <<1056280, 0, 0>>,
     <<1056320, 0, 0>>,
     <<1057744, 0, 0>>,
     <<1057744, 0, 1>>,
     <<1058768, 0, 0>>,
     <<1058892, 0, 0>>,
     <<1058932, 0, 0>>,
     <<1058935, 1048576, 0>>,
     <<1058935, 1363148, 1677722>>,
     <<1058935, 1468006, 838861>>,
     <<1058935, 1572864, 0>>,
     <<1058936, 0, 0>>,
     <<1058942, 0, 0>>,
     <<1058992, 0, 0>>,
     <<1060066, 0, 0>>,
     <<1067937, 262144, 0>>,
     <<1387666, 878892, 1360765>>,
     <<2096127, 2097151, 2097151>>}

\* the magnitudes of the calls with x <= 0: 0.0 and -0.0, and negative floats
SQUASH_NEGATIVE ==
    {<<2095219, 498735, 772256>>,
     <<1054592, 0, 0>>,
     <<0, 0, 1>>,
     <<0, 0, 0>>}

\* x / K for K = 120.0, rounded to the nearest float
DIV_K ==
    (<<0, 0, 1>> :> <<0, 0, 0>>)
    @@ (<<0, 0, 2024>> :> <<0, 0, 17>>)
    @@ (<<1024, 0, 0>> :> <<8, 1118481, 139810>>)
    @@ (<<26971, 1113623, 1635161>> :> <<19894, 2026726, 346070>>)
    @@ (<<707327, 1668900, 918832>> :> <<700279, 521869, 560657>>)
    @@ (<<1013471, 458446, 1555899>> :> <<1006420, 1048250, 820765>>)
    @@ (<<1037336, 1207959, 1157628>> :> <<1030238, 1008869, 1933854>>)
    @@ (<<1046528, 0, 0>> :> <<1039428, 559240, 1118481>>)
    @@ (<<1047552, 0, 0>> :> <<1040452, 559240, 1118481>>)
    @@ (<<1047552, 0, 1>> :> <<1040452, 559240, 1118482>>)
    @@ (<<1050880, 0, 0>> :> <<1043797, 699050, 1398101>>)
    @@ (<<1051904, 0, 0>> :> <<1044821, 699050, 1398101>>)
    @@ (<<1052544, 0, 0>> :> <<1045504, 0, 0>>)
    @@ (<<1052928, 0, 0>> :> <<1045845, 699050, 1398101>>)
    @@ (<<1053248, 0, 0>> :> <<1046186, 1398101, 699051>>)
    @@ (<<1053568, 0, 0>> :> <<1046528, 0, 0>>)
    @@ (<<1053792, 0, 0>> :> <<1046698, 1398101, 699051>>)
    @@ (<<1053952, 0, 0>> :> <<1046869, 699050, 1398101>>)
    @@ (<<1054112, 0, 0>> :> <<1047040, 0, 0>>)
    @@ (<<1054272, 0, 0>> :> <<1047210, 1398101, 699051>>)
    @@ (<<1054432, 0, 0>> :> <<1047381, 699050, 1398101>>)
    @@ (<<1054592, 0, 0>> :> <<1047552, 0, 0>>)
    @@ (<<1054592, 0, 1>> :> <<1047552, 0, 1>>)
    @@ (<<1054736, 0, 0>> :> <<1047637, 699050, 1398101>>)
    @@ (<<1054816, 0, 0>> :> <<1047722, 1398101, 699051>>)
    @@ (<<1054896, 0, 0>> :> <<1047808, 0, 0>>)
    @@ (<<1054976, 0, 0>> :> <<1047893, 699050, 1398101>>)
    @@ (<<1055056, 0, 0>> :> <<1047978, 1398101, 699051>>)
    @@ (<<1055136, 0, 0>> :> <<1048064, 0, 0>>)
    @@ (<<1055216, 0, 0>> :> <<1048149, 699050, 1398101>>)
    @@ (<<1055296, 0, 0>> :> <<1048234, 1398101, 699051>>)
    @@ (<<1055376, 0, 0>> :> <<1048320, 0, 0>>)
    @@ (<<1055456, 0, 0>> :> <<1048405, 699050, 1398101>>)
    @@ (<<1055536, 0, 0>> :> <<1048490, 1398101, 699051>>)
    @@ (<<1055616, 0, 0>> :> <<1048576, 0, 0>>)
    @@ (<<1055696, 0, 0>> :> <<1048618, 1398101, 699051>>)
    @@ (<<1055760, 0, 0>> :> <<1048661, 699050, 1398101>>)
    @@ (<<1055800, 0, 0>> :> <<1048704, 0, 0>>)
    @@ (<<1055840, 0, 0>> :> <<1048746, 1398101, 699051>>)
    @@ (<<1055880, 0, 0>> :> <<1048789, 699050, 1398101>>)
    @@ (<<1055920, 0, 0>> :> <<1048832, 0, 0>>)
    @@ (<<1055960, 0, 0>> :> <<1048874, 1398101, 699051>>)
    @@ (<<1056000, 0, 0>> :> <<1048917, 699050, 1398101>>)
    @@ (<<1056040, 0, 0>> :> <<1048960, 0, 0>>)
    @@ (<<1056080, 0, 0>> :> <<1049002, 1398101, 699051>>)
    @@ (<<1056120, 0, 0>> :> <<1049045, 699050, 1398101>>)
    @@ (<<1056160, 0, 0>> :> <<1049088, 0, 0>>)
    @@ (<<1056200, 0, 0>> :> <<1049130, 1398101, 699051>>)
    @@ (<<1056240, 0, 0>> :> <<1049173, 699050, 1398101>>)
    @@ (<<1056280, 0, 0>> :> <<1049216, 0, 0>>)
    @@ (<<1056320, 0, 0>> :> <<1049258, 1398101, 699051>>)
    @@ (<<1057744, 0, 0>> :> <<1050666, 1398101, 699051>>)
    @@ (<<1057744, 0, 1>> :> <<1050666, 1398101, 699051>>)
    @@ (<<1058768, 0, 0>> :> <<1051690, 1398101, 699051>>)
    @@ (<<1058892, 0, 0>> :> <<1051797, 699050, 1398101>>)
    @@ (<<1058932, 0, 0>> :> <<1051840, 0, 0>>)
    @@ (<<1058935, 1048576, 0>> :> <<1051843, 1537911, 978671>>)
    @@ (<<1058935, 1363148, 1677722>> :> <<1051843, 1873455, 1649760>>)
    @@ (<<1058935, 1468006, 838861>> :> <<1051843, 1985303, 1873456>>)
    @@ (<<1058935, 1572864, 0>> :> <<1051844, 0, 0>>)
    @@ (<<1058936, 0, 0>> :> <<1051844, 559240, 1118481>>)
    @@ (<<1058942, 0, 0>> :> <<1051850, 1398101, 699051>>)
    @@ (<<1058992, 0, 0>> :> <<1051904, 0, 0>>)
    @@ (<<1060066, 0, 0>> :> <<1052981, 699050, 1398101>>)
    @@ (<<1067937, 262144, 0>> :> <<1060881, 1398101, 699051>>)
    @@ (<<1387666, 878892, 1360765>> :> <<1380576, 937485, 1032052>>)
    @@ (<<2096127, 2097151, 2097151>> :> <<2089028, 559240, 1118481>>)

\* math.tanh(y)
TANH ==
    (<<0, 0, 0>> :> <<0, 0, 0>>)
    @@ (<<0, 0, 17>> :> <<0, 0, 17>>)
    @@ (<<8, 1118481, 139810>> :> <<8, 1118481, 139810>>)
    @@ (<<19894, 2026726, 346070>> :> <<19894, 2026726, 346070>>)
    @@ (<<700279, 521869, 560657>> :> <<700279, 521869, 560657>>)
    @@ (<<1006420, 1048250, 820765>> :> <<1006420, 1048250, 820765>>)
    @@ (<<1030238, 1008869, 1933854>> :> <<1030238, 1008869, 1819985>>)
    @@ (<<1039428, 559240, 1118481>> :> <<1039428, 545984, 1160748>>)
    @@ (<<1040452, 559240, 1118481>> :> <<1040452, 506217, 1506980>>)
    @@ (<<1040452, 559240, 1118482>> :> <<1040452, 506217, 1506981>>)
    @@ (<<1043797, 699050, 1398101>> :> <<1043794, 380830, 673517>>)
    @@ (<<1044821, 699050, 1398101>> :> <<1044808, 1741187, 77333>>)
    @@ (<<1045504, 0, 0>> :> <<1045462, 783668, 1711238>>)
    @@ (<<1045845, 699050, 1398101>> :> <<1045796, 1921353, 1869826>>)
    @@ (<<1046186, 1398101, 699051>> :> <<1046094, 649392, 38601>>)
    @@ (<<1046528, 0, 0>> :> <<1046372, 1744570, 1477363>>)
    @@ (<<1046698, 1398101, 699051>> :> <<1046579, 779964, 378736>>)
    @@ (<<1046869, 699050, 1398101>> :> <<1046697, 1131354, 1962577>>)
    @@ (<<1047040, 0, 0>> :> <<1046804, 1646378, 1241640>>)
    @@ (<<1047210, 1398101, 699051>> :> <<1046901, 570732, 803946>>)
    @@ (<<1047381, 699050, 1398101>> :> <<1046987, 840062, 1296671>>)
    @@ (<<1047552, 0, 0>> :> <<1047063, 1562024, 1373076>>)
    @@ (<<1047552, 0, 1>> :> <<1047063, 1562024, 1373077>>)
    @@ (<<1047637, 699050, 1398101>> :> <<1047130, 2090092, 1800005>>)
    @@ (<<1047722, 1398101, 699051>> :> <<1047189, 1918730, 1756270>>)
    @@ (<<1047808, 0, 0>> :> <<1047241, 597467, 732654>>)
    @@ (<<1047893, 699050, 1398101>> :> <<1047285, 1858670, 1443239>>)
    @@ (<<1047978, 1398101, 699051>> :> <<1047324, 986144, 1283716>>)
    @@ (<<1048064, 0, 0>> :> <<1047357, 1559491, 914807>>)
    @@ (<<1048149, 699050, 1398101>> :> <<1047386, 754015, 596446>>)
    @@ (<<1048234, 1398101, 699051>> :> <<1047410, 1913606, 458446>>)
    @@ (<<1048320, 0, 0>> :> <<1047431, 1965247, 210215>>)
    @@ (<<1048405, 699050, 1398101>> :> <<1047449, 1907461, 751176>>)
    @@ (<<1048490, 1398101, 699051>> :> <<1047465, 525050, 994522>>)
    @@ (<<1048576, 0, 0>> :> <<1047478, 688880, 1819604>>)
    @@ (<<1048618, 1398101, 699051>> :> <<1047489, 976722, 1597159>>)
    @@ (<<1048661, 699050, 1398101>> :> <<1047498, 1974535, 1654093>>)
    @@ (<<1048704, 0, 0>> :> <<1047506, 2091873, 916766>>)
    @@ (<<1048746, 1398101, 699051>> :> <<1047513, 1765446, 1183100>>)
    @@ (<<1048789, 699050, 1398101>> :> <<1047519, 1370585, 427211>>)
    @@ (<<1048832, 0, 0>> :> <<1047524, 1229104, 684482>>)
    @@ (<<1048874, 1398101, 699051>> :> <<1047528, 1616385, 113272>>)
    @@ (<<1048917, 699050, 1398101>> :> <<1047532, 670526, 2031252>>)
    @@ (<<1048960, 0, 0>> :> <<1047535, 689367, 503358>>)
    @@ (<<1049002, 1398101, 699051>> :> <<1047537, 1843898, 1699666>>)
    @@ (<<1049045, 699050, 1398101>> :> <<1047540, 85364, 541790>>)
    @@ (<<1049088, 0, 0>> :> <<1047541, 1829000, 1706752>>)
    @@ (<<1049130, 1398101, 699051>> :> <<1047543, 888547, 439149>>)
    @@ (<<1049173, 699050, 1398101>> :> <<1047544, 1547651, 2089077>>)
    @@ (<<1049216, 0, 0>> :> <<1047545, 1785006, 1266592>>)
    @@ (<<1049258, 1398101, 699051>> :> <<1047546, 1664965, 911764>>)
    @@ (<<1050666, 1398101, 699051>> :> <<1047551, 2096655, 1457961>>)
    @@ (<<1051690, 1398101, 699051>> :> <<1047551, 2097151, 2097092>>)
    @@ (<<1051797, 699050, 1398101>> :> <<1047551, 2097151, 2097150>>)
    @@ (<<1051840, 0, 0>> :> <<1047551, 2097151, 2097151>>)
    @@ (<<1051843, 1537911, 978671>> :> <<1047551, 2097151, 2097151>>)
    @@ (<<1051843, 1873455, 1649760>> :> <<1047551, 2097151, 2097151>>)
    @@ (<<1051843, 1985303, 1873456>> :> <<1047552, 0, 0>>)
    @@ (<<1051844, 0, 0>> :> <<1047552, 0, 0>>)
    @@ (<<1051844, 559240, 1118481>> :> <<1047552, 0, 0>>)
    @@ (<<1051850, 1398101, 699051>> :> <<1047552, 0, 0>>)
    @@ (<<1051904, 0, 0>> :> <<1047552, 0, 0>>)
    @@ (<<1052981, 699050, 1398101>> :> <<1047552, 0, 0>>)
    @@ (<<1060881, 1398101, 699051>> :> <<1047552, 0, 0>>)
    @@ (<<1380576, 937485, 1032052>> :> <<1047552, 0, 0>>)
    @@ (<<2089028, 559240, 1118481>> :> <<1047552, 0, 0>>)

\* K * t for K = 120.0, rounded to the nearest float
MUL_K ==
    (<<0, 0, 0>> :> <<0, 0, 0>>)
    @@ (<<0, 0, 17>> :> <<0, 0, 2040>>)
    @@ (<<8, 1118481, 139810>> :> <<1023, 2097151, 2097136>>)
    @@ (<<19894, 2026726, 346070>> :> <<26971, 1113623, 1635161>>)
    @@ (<<700279, 521869, 560657>> :> <<707327, 1668900, 918832>>)
    @@ (<<1006420, 1048250, 820765>> :> <<1013471, 458446, 1555899>>)
    @@ (<<1030238, 1008869, 1819985>> :> <<1037336, 1207959, 1050876>>)
    @@ (<<1039428, 545984, 1160748>> :> <<1046527, 2072297, 79250>>)
    @@ (<<1040452, 506217, 1506980>> :> <<1047551, 1997734, 466292>>)
    @@ (<<1040452, 506217, 1506981>> :> <<1047551, 1997734, 466293>>)
    @@ (<<1043794, 380830, 673517>> :> <<1050877, 94884, 893566>>)
    @@ (<<1044808, 1741187, 77333>> :> <<1051892, 583786, 1776436>>)
    @@ (<<1045462, 783668, 1711238>> :> <<1052504, 2045409, 1079998>>)
    @@ (<<1045796, 1921353, 1869826>> :> <<1052882, 1276981, 573314>>)
    @@ (<<1046094, 649392, 38601>> :> <<1053161, 870949, 36188>>)
    @@ (<<1046372, 1744570, 1477363>> :> <<1053422, 1111247, 74308>>)
    @@ (<<1046579, 779964, 378736>> :> <<1053664, 676000, 1758706>>)
    @@ (<<1046697, 1131354, 1962577>> :> <<1053790, 1978149, 529196>>)
    @@ (<<1046804, 1646378, 1241640>> :> <<1053891, 1019191, 1950470>>)
    @@ (<<1046901, 570732, 803946>> :> <<1053981, 1976853, 1277987>>)
    @@ (<<1046987, 840062, 1296671>> :> <<1054062, 1442918, 1477773>>)
    @@ (<<1047063, 1562024, 1373076>> :> <<1054134, 546894, 238683>>)
    @@ (<<1047063, 1562024, 1373077>> :> <<1054134, 546894, 238684>>)
    @@ (<<1047130, 2090092, 1800005>> :> <<1054197, 648742, 114641>>)
    @@ (<<1047189, 1918730, 1756270>> :> <<1054252, 1143450, 335783>>)
    @@ (<<1047241, 597467, 732654>> :> <<1054300, 1477629, 1342223>>)
    @@ (<<1047285, 1858670, 1443239>> :> <<1054342, 1087143, 1615181>>)
    @@ (<<1047324, 986144, 1283716>> :> <<1054378, 1448798, 1203484>>)
    @@ (<<1047357, 1559491, 914807>> :> <<1054409, 1855239, 464416>>)
    @@ (<<1047386, 754015, 596446>> :> <<1054436, 1493321, 690240>>)
    @@ (<<1047410, 1913606, 458446>> :> <<1054459, 1531861, 1740513>>)
    @@ (<<1047431, 1965247, 210215>> :> <<1054479, 924915, 328149>>)
    @@ (<<1047449, 1907461, 751176>> :> <<1054496, 608597, 48868>>)
    @@ (<<1047465, 525050, 994522>> :> <<1054510, 1409738, 1718796>>)
    @@ (<<1047478, 688880, 1819604>> :> <<1054522, 1956545, 1705879>>)
    @@ (<<1047489, 976722, 1597159>> :> <<1054533, 784605, 1235193>>)
    @@ (<<1047498, 1974535, 1654093>> :> <<1054542, 540407, 633208>>)
    @@ (<<1047506, 2091873, 916766>> :> <<1054549, 1698987, 728396>>)
    @@ (<<1047513, 1765446, 1183100>> :> <<1054556, 475458, 322724>>)
    @@ (<<1047519, 1370585, 427211>> :> <<1054561, 1415995, 1318014>>)
    @@ (<<1047524, 1229104, 684482>> :> <<1054566, 627997, 641702>>)
    @@ (<<1047528, 1616385, 113272>> :> <<1054570, 466784, 2072272>>)
    @@ (<<1047532, 670526, 2031252>> :> <<1054573, 1152907, 69291>>)
    @@ (<<1047535, 689367, 503358>> :> <<1054576, 777353, 1651546>>)
    @@ (<<1047537, 1843898, 1699666>> :> <<1054578, 1597583, 282717>>)
    @@ (<<1047540, 85364, 541790>> :> <<1054580, 1652892, 2080792>>)
    @@ (<<1047541, 1829000, 1706752>> :> <<1054582, 1059328, 551504>>)
    @@ (<<1047543, 888547, 439149>> :> <<1054583, 2012661, 18486>>)
    @@ (<<1047544, 1547651, 2089077>> :> <<1054585, 402347, 1565294>>)
    @@ (<<1047545, 1785006, 1266592>> :> <<1054586, 493795, 1449574>>)
    @@ (<<1047546, 1664965, 911764>> :> <<1054587, 250185, 199419>>)
    @@ (<<1047551, 2096655, 1457961>> :> <<1054591, 2096686, 1497910>>)
    @@ (<<1047551, 2097151, 2097092>> :> <<1054591, 2097151, 2097096>>)
    @@ (<<1047551, 2097151, 2097150>> :> <<1054591, 2097151, 2097150>>)
    @@ (<<1047551, 2097151, 2097151>> :> <<1054591, 2097151, 2097151>>)
    @@ (<<1047552, 0, 0>> :> <<1054592, 0, 0>>)

\* the floats 0.0, 1.0 and K = 120.0
FloatZero == [neg |-> FALSE, b |-> <<0, 0, 0>>]

FloatOne == [neg |-> FALSE, b |-> <<1047552, 0, 0>>]

FloatK == [neg |-> FALSE, b |-> <<1054592, 0, 0>>]

\* the order of the bit patterns of two magnitudes
BitsLess(a, b) ==
    \/ a[1] < b[1]
    \/ a[1] = b[1] /\ a[2] < b[2]
    \/ a[1] = b[1] /\ a[2] = b[2] /\ a[3] < b[3]

\* x < y for two floats; 0.0 and -0.0 are equal
FloatLess(x, y) ==
    IF x.neg /\ ~y.neg THEN x.b # FloatZero.b \/ y.b # FloatZero.b
    ELSE IF ~x.neg /\ y.neg THEN FALSE
    ELSE IF x.neg THEN BitsLess(y.b, x.b)
    ELSE BitsLess(x.b, y.b)

\* x <= y for two floats
FloatLessEq(x, y) == ~FloatLess(y, x)

\* x / K, math.tanh(y) and K * t for the positive floats of the calls
FloatDivK(x) == [neg |-> FALSE, b |-> DIV_K[x.b]]

FloatTanh(y) == [neg |-> FALSE, b |-> TANH[y.b]]

FloatMulK(t) == [neg |-> FALSE, b |-> MUL_K[t.b]]

\* a variant of SquashFloat that returns 0.0 up to x = K
SquashFloatFromK(x) ==
    IF FloatLessEq(x, FloatK) THEN FloatZero
    ELSE FloatMulK(FloatTanh(FloatDivK(x)))

\* _squash(x, K=120.0): "if x <= 0: return 0.0; return K * math.tanh(x / K)"
SquashFloat(x) ==
    IF FloatLessEq(x, FloatZero) THEN FloatZero
    ELSE FloatMulK(FloatTanh(FloatDivK(x)))

\* the arguments of the calls
SquashInputs ==
    {[neg |-> FALSE, b |-> m] : m \in SQUASH_POSITIVE \cup {FloatZero.b}}
        \cup {[neg |-> TRUE, b |-> m] : m \in SQUASH_NEGATIVE}

\* a call of _squash(x): report holds the argument, then the result with it
SquashCall ==
    /\ pc = "squash_called"
    /\ pc' = "squash_returned"
    /\ report' = [x |-> report.x, squashed |-> SquashFloat(report.x)]
    /\ UNCHANGED <<apk, min_weight, G, files, driver>>

InitSquash ==
    /\ pc = "squash_called"
    /\ apk = InvalidApk
    /\ min_weight = DefaultMinWeight
    /\ G = EmptyGraph
    /\ files = << >>
    /\ report \in [x : SquashInputs]
    /\ NoDriver

NextSquash == SquashCall

SpecSquash == InitSquash /\ [][NextSquash]_vars

\* C22: as the specification states it: _squash(x) is exactly 0 for every
\* x <= 0, is strictly increasing for x > 0, and 0 < _squash(x) < K for every
\* finite x > 0.
C22_StrictlyInsideZeroK ==
    pc = "squash_returned" =>
        LET x == report.x
            v == report.squashed
        IN  /\ FloatLessEq(x, FloatZero) => v = FloatZero
            /\ FloatLess(FloatZero, x) =>
                 /\ FloatLess(FloatZero, v) /\ FloatLess(v, FloatK)
                 /\ \A y \in SquashInputs :
                      FloatLess(x, y) => FloatLess(v, SquashFloat(y))

\* C22, amended: _squash(x) is exactly 0.0 for every x <= 0; for x > 0 it never
\* decreases and 0 <= _squash(x) <= K; it is 0.0 exactly when x / K underflows
\* to 0.0, and exactly K when math.tanh(x / K) is 1.0 in floats; so the semantic
\* contribution is at most K.
C22_SquashWithinZeroK ==
    pc = "squash_returned" =>
        LET x == report.x
            v == report.squashed
        IN  /\ FloatLessEq(x, FloatZero) => v = FloatZero
            /\ FloatLess(FloatZero, x) =>
                 /\ FloatLessEq(FloatZero, v) /\ FloatLessEq(v, FloatK)
                 /\ v = FloatZero <=> FloatDivK(x) = FloatZero
                 /\ v = FloatK <=> FloatTanh(FloatDivK(x)) = FloatOne
                 /\ \A y \in SquashInputs :
                      FloatLess(x, y) => FloatLessEq(v, SquashFloat(y))

\* a call with x > 0 that returned exactly K
C22_Witness ==
    /\ pc = "squash_returned"
    /\ FloatLess(FloatZero, report.x)
    /\ report.squashed = FloatK

\* ----------------------------------- the scaled-down categories of the analyser
ScaledCategories == {"device_info", "file_operations", "background_ops"}

\* C23: in a report of analyze_malware_semantically on a large package with a
\* benign hint, for every category c of device_info, file_operations and
\* background_ops: with no node of the graph in c the final manifest count of
\* c is 0, the large caps having left at most 1 to scale by 0.4 or 0.5 and
\* round half to even; with a node of the graph in c the capped manifest
\* count is the final one.
C23_ScaledToZero ==
    (pc = "analyzed" /\ ~report.early
       /\ report.locals.is_large /\ report.locals.benign_heavy) =>
        \A c \in ScaledCategories :
            /\ report.locals.counts_cap[c] <= 1
            /\ report.locals.counts_g[c] = 0 => report.locals.counts_m[c] = 0
            /\ report.locals.counts_g[c] > 0 =>
                 report.locals.counts_m[c] = report.locals.counts_cap[c]

\* a large package with a benign hint whose permissions count in each of the
\* three categories, more than once in device_info and background_ops: the
\* graph has a device_info node and the capped count 1 of that category is
\* kept, the two other categories have none and are scaled from 1 to 0
C23_Witness ==
    /\ pc = "analyzed" /\ ~report.early
    /\ report.locals.is_large /\ report.locals.benign_heavy
    /\ report.locals.counts_raw["device_info"] > 1
    /\ report.locals.counts_raw["background_ops"] > 1
    /\ report.locals.counts_raw["file_operations"] = 1
    /\ report.locals.counts_g["device_info"] > 0
    /\ report.locals.counts_m["device_info"] = 1
    /\ report.locals.counts_g["file_operations"] = 0
    /\ report.locals.counts_g["background_ops"] = 0

\* ------------------------------------------------- the rows of the output CSV
\* C24: after any sequence of runs of stream_score_dataset, interrupted or
\* not, that started without a CSV, the CSV holds at most one data row for an
\* apk_name, also when benign/ and malware/ hold files of the same name.
C24_OneRowPerName ==
    \A i, j \in 2..Len(out_csv.lines) :
        i # j => out_csv.lines[i][1] # out_csv.lines[j][1]

\* ------------------------------- feature_extraction: the order of the files
\* C25: feature_extraction.build_api_graph_compact publishes the graph before
\* the metadata: while the metadata is written and when the builder returns
\* it, <stem>.graphml is the complete graph of the build; in every state of a
\* builder, stopped at any step and called again or not, <stem>.meta.json and
\* its .tmp file exist only if <stem>.graphml exists, neither final file is
\* truncated, and the stored metadata is returned without analysis only when
\* both final files exist.
C25_MetaOnlyWithGraph ==
    LET f == files[FeStem] IN
    /\ f.meta.present => f.graph.present
    /\ f.graph # Truncated /\ f.meta # Truncated
    /\ pc \in {"fe_graph", "fe_meta_tmp", "fe_returned"} =>
         f.graph = [present |-> TRUE, g |-> G]
    /\ f.meta_tmp.present => f.graph.present
    /\ pc = "fe_cached" => f.graph.present /\ f.meta.present /\ report = f.meta

\* a builder that started in an empty directory and was stopped in the
\* middle of the write of <stem>.meta.json.tmp: the graph file is there, the
\* meta file is not
C25_Witness ==
    /\ pc = "fe_crashed"
    /\ files[FeStem].graph.present
    /\ files[FeStem].graph.g # EmptyGraph
    /\ ~files[FeStem].meta.present
    /\ files[FeStem].meta_tmp = Truncated

====
